---- MODULE Spec2Model ----
(***************************************************************************)
(* Softbody WebGPU engine: the device buffers and the delete-compaction    *)
(* kernel (shaders/compute.wgsl), the host-side scene store BufferMapper   *)
(* (engineMapping) and the worker's request handlers and frame loop        *)
(* (engineWorker).                                                         *)
(*                                                                         *)
(* Data abstraction.  A particle record (position, velocity, acceleration) *)
(* and the float fields of a beam record are one integer token each; a     *)
(* token is representable as f32 iff it is even, and a store into a        *)
(* Float32Array rounds (Fround).  The mapping table is kept as its u16     *)
(* entries; the shader's u32 word w holds entries 2w (low) and 2w+1 (high).*)
(***************************************************************************)
EXTENDS Integers, Sequences, FiniteSets, TLC

\* ------------------------------------------------------------------ bounds
\* Capacity of the particle section (BufferMapper.maxParticles for the device).
MaxParticles == 3

\* Capacity of the scene store that is edited directly.
StoreCapacity == 2

\* Largest token of a float record; the doubles the host can hand over are 0..MaxVal.
MaxVal == 1

\* Number of request handlers that can be in progress together.
MaxTasks == 2

\* The subticks option ranges over 0, 1/2, 1, ..., MaxSubticks.
MaxSubticks == 3

\* ------------------------------------------------------- program constants
WorkgroupSize == 64
U16 == 65536
ParticleStride == 24
BeamStride == 40
DefaultSubticks == 64
particle_radius == 10
\* Token of the constants the Metadata constructor installs (all-zero bytes are 0).
DefaultConstants == 2

\* maxBeams is computed by the same expression as maxParticles.
MaxBeams == MaxParticles

MapLen == MaxParticles + MaxBeams

Min(a, b) == IF a < b THEN a ELSE b
Max(a, b) == IF a > b THEN a ELSE b

VARIABLES
    buffers,        \* device buffers (GPUBuffer contents)
    delete_index,   \* var<workgroup> delete_index: array<atomic<u32>, 2>
    lanes,          \* per-invocation position inside the running kernel
    kpc,            \* kernel phase: "idle" | "lanes" (delete) | "update"
    frames,         \* delete passes completed; in the update layer, the
                    \* commands of the submitted frame executed so far
    pre,            \* history: live and marked slots at the start of the pass;
                    \* in the update layer, the frame's marks and contributions
    bufferMapper,   \* the BufferMapper: host buffers and the scene store
    snapshot,       \* the snapshot ArrayBuffer last produced / handed over
    lastOp,         \* history: the last store operation and its result
    tasks,          \* the request handlers in progress, by position
    lock,           \* AsyncLock: the task holding it, or 0
    staging,        \* staging buffers of loadBuffers
    frameLoop,      \* position of startDraw / frame
    encoder,        \* commands recorded by the current (or last) frame
    userInput,      \* the worker's userInput record
    subticks,       \* the worker's subticks field
    posted,         \* the last message posted to the host
    engine,         \* the worker's running flag, message listener, device and
                    \* particleRadius, and the destroy() calls in progress
    host            \* the host engine: running flag, input listeners, worker

kvars == <<delete_index, lanes, kpc, frames, pre>>
svars == <<snapshot, lastOp>>
wvars == <<tasks, lock, staging, frameLoop, encoder, userInput, subticks, posted,
           engine, host>>

vars == <<buffers, delete_index, lanes, kpc, frames, pre, bufferMapper, snapshot,
          lastOp, tasks, lock, staging, frameLoop, encoder, userInput, subticks, posted,
          engine, host>>

\* ------------------------------------------------------ device buffer shape
ZeroBeam == [particle_pair |-> <<0, 0>>, val |-> 0]

\* A store into a Float32Array rounds the double to the nearest f32.
Fround(x) == 2 * (x \div 2)

\* Metadata constructor: indirect words, capacities, default constants.
Metadata(maxParticles, maxBeams) ==
    [particle_i_c |-> 0, beam_i_c |-> 0,
     max_particles |-> maxParticles, max_beams |-> maxBeams,
     physicsConstants |-> Fround(DefaultConstants), userInput |-> 0]

NewMetadata == Metadata(MaxParticles, MaxBeams)

\* The values the variables of the other layers keep in a specification that
\* does not exercise them.
NoKernel ==
    /\ delete_index = <<0, 0>>
    /\ lanes = <<>>
    /\ kpc = "idle"
    /\ frames = 0
    /\ pre = [liveP |-> {}, liveB |-> {}, markP |-> {}, markB |-> {}]

NoStore == snapshot = <<>> /\ lastOp = <<>>

NoWorker ==
    /\ tasks = <<>>
    /\ lock = 0
    /\ staging = <<>>
    /\ frameLoop = "off"
    /\ encoder = <<>>
    /\ userInput = 0
    /\ subticks = 0
    /\ posted = <<>>
    /\ engine = <<>>
    /\ host = <<>>

\* get_mapped_index(id): the u16 entry id of the mapping buffer.
get_mapped_index(m, id) == m[id]

\* The u32 word w of the mapping buffer as <<low half, high half>>.
WordAt(m, w) == <<m[2 * w], m[2 * w + 1]>>

\* insertBits(word, value, (id % 2) * 16, 16)
insertBits(word, value, id) == [word EXCEPT ![(id % 2) + 1] = value]

\* Store of a whole u32 word into the mapping buffer.
StoreWord(m, w, word) == [m EXCEPT ![2 * w] = word[1], ![2 * w + 1] = word[2]]

\* mark_particle_deleted / mark_beam_deleted: the bit index that is set.
mark_particle_deleted(bits, id) == bits \cup {id}
mark_beam_deleted(bits, md, id) == bits \cup {md.max_particles + id}

\* ---------------------------------------------------------- compute_delete
\* The range of mapping indices lane gid strides through, particles then beams.
map_particle_step(md) == md.particle_i_c \div WorkgroupSize + 1
map_particle_start(md, gid) == map_particle_step(md) * gid
map_particle_end(md, gid) == Min(md.particle_i_c, map_particle_step(md) * (gid + 1))
map_beam_step(md) == md.beam_i_c \div WorkgroupSize + 1
map_beam_start(md, gid) == md.max_particles + map_beam_step(md) * gid
map_beam_end(md, gid) == md.max_particles + Min(md.beam_i_c, map_beam_step(md) * (gid + 1))

RECURSIVE Range(_, _)
Range(a, b) == IF a >= b THEN <<>> ELSE <<a>> \o Range(a + 1, b)

LaneItems(md, gid) ==
    Range(map_particle_start(md, gid), map_particle_end(md, gid))
        \o Range(map_beam_start(md, gid), map_beam_end(md, gid))

\* Index (into LaneItems) of the next entry after i whose delete bit is set; 0 if none.
NextMarked(md, bits, gid, i) ==
    LET items == LaneItems(md, gid)
        cand == {j \in (i + 1)..Len(items) : items[j] \in bits}
    IN IF cand = {} THEN 0 ELSE CHOOSE j \in cand : \A k \in cand : j <= k

\* Which cursor an entry uses: 1 for the particle section, 2 for the beam section.
CursorOf(md, pos) == IF pos < md.max_particles THEN 1 ELSE 2

LaneAt(md, bits, gid, i) ==
    LET j == NextMarked(md, bits, gid, i)
    IN IF j = 0
       THEN [pc |-> "done", at |-> 0, replace_map |-> 0, word |-> <<0, 0>>]
       ELSE [pc |-> "sub", at |-> j, replace_map |-> 0, word |-> <<0, 0>>]

Lanes == 0..(WorkgroupSize - 1)

\* The invocations whose loops have at least one iteration; the others fall
\* through to the barrier at once.
ActiveLanes(md) == {gid \in Lanes : LaneItems(md, gid) # <<>>}

\* u32 values are kept as their two's-complement representative (0xFFFFFFFF is
\* -1), so that + and - agree with the shader's arithmetic modulo 2^32.
\* Initial cursor values stored by invocation 0.
InitCursor(md) == << md.particle_i_c - 1, md.max_particles + md.beam_i_c - 1 >>

\* The counts invocation 0 writes back from the final cursors.
FinalCountsOffByOne(md, idx) == << idx[1] + 2, idx[2] + 2 - md.max_particles >>
FinalCounts(md, idx) == << idx[1] + 1, idx[2] + 1 - md.max_particles >>

LiveSlots(b, base, count) == {b.mapping[base + i] : i \in 0..(count - 1)}

\* Invocation 0 stores the cursors; workgroupBarrier; every lane enters its loops.
DeleteBegin ==
    /\ kpc = "idle"
    /\ delete_index' = InitCursor(buffers.metadata)
    /\ lanes' = [gid \in ActiveLanes(buffers.metadata) |->
                    LaneAt(buffers.metadata, buffers.deleteMappings, gid, 0)]
    /\ kpc' = "lanes"
    /\ pre' = [liveP |-> LiveSlots(buffers, 0, buffers.metadata.particle_i_c),
               liveB |-> LiveSlots(buffers, MaxParticles, buffers.metadata.beam_i_c),
               markP |-> {buffers.mapping[i] : i \in
                            {j \in 0..(buffers.metadata.particle_i_c - 1) :
                                j \in buffers.deleteMappings}},
               markB |-> {buffers.mapping[MaxParticles + i] : i \in
                            {j \in 0..(buffers.metadata.beam_i_c - 1) :
                                (MaxParticles + j) \in buffers.deleteMappings}}]
    /\ UNCHANGED <<buffers, frames, bufferMapper, svars, wvars>>

\* let replace_map = atomicSub(&delete_index[c], 1);
LaneSub(gid) ==
    /\ kpc = "lanes"
    /\ gid \in DOMAIN lanes
    /\ lanes[gid].pc = "sub"
    /\ LET md == buffers.metadata
           pos == LaneItems(md, gid)[lanes[gid].at]
           c == CursorOf(md, pos)
       IN /\ delete_index' = [delete_index EXCEPT ![c] = @ - 1]
          /\ lanes' = [lanes EXCEPT ![gid].pc = "load",
                                    ![gid].replace_map = delete_index[c]]
    /\ UNCHANGED <<buffers, kpc, frames, pre, bufferMapper, svars, wvars>>

\* The operands of insertBits are loaded: the destination word and the u16
\* entry of the replacement, extractBits(mappings[replace_map / 2], ...).
LaneLoad(gid) ==
    /\ kpc = "lanes"
    /\ gid \in DOMAIN lanes
    /\ lanes[gid].pc = "load"
    /\ LET pos == LaneItems(buffers.metadata, gid)[lanes[gid].at]
           src == get_mapped_index(buffers.mapping, lanes[gid].replace_map)
       IN lanes' = [lanes EXCEPT
                      ![gid].pc = "store",
                      ![gid].word = insertBits(WordAt(buffers.mapping, pos \div 2), src, pos)]
    /\ UNCHANGED <<buffers, delete_index, kpc, frames, pre, bufferMapper, svars, wvars>>

\* mappings[pos / 2] = <the new word>; then on to the next marked entry.
LaneStore(gid) ==
    /\ kpc = "lanes"
    /\ gid \in DOMAIN lanes
    /\ lanes[gid].pc = "store"
    /\ LET md == buffers.metadata
           pos == LaneItems(md, gid)[lanes[gid].at]
       IN /\ buffers' = [buffers EXCEPT
                            !.mapping = StoreWord(@, pos \div 2, lanes[gid].word)]
          /\ lanes' = [lanes EXCEPT
                            ![gid] = LaneAt(md, buffers.deleteMappings, gid, lanes[gid].at)]
    /\ UNCHANGED <<delete_index, kpc, frames, pre, bufferMapper, svars, wvars>>

\* let len = -(i32(max_particles + max_beams) / -2): the number of bitmap words
\* invocation 0 clears (integer division truncates toward zero).
ClearedWordsNone(md) == 0
ClearedWords(md) == (md.max_particles + md.max_beams) \div 2

\* After the barriers invocation 0 writes the counts back and clears the bitmap.
DeleteEnd ==
    /\ kpc = "lanes"
    /\ \A gid \in DOMAIN lanes : lanes[gid].pc = "done"
    /\ LET c == FinalCounts(buffers.metadata, delete_index)
       IN buffers' = [buffers EXCEPT !.metadata.particle_i_c = c[1],
                                     !.metadata.beam_i_c = c[2],
                                     !.deleteMappings =
                                        {i \in @ : i \div 32 >= ClearedWords(buffers.metadata)}]
    /\ lanes' = <<>>
    /\ kpc' = "idle"
    /\ frames' = 1
    /\ UNCHANGED <<delete_index, pre, bufferMapper, svars, wvars>>

\* Between delete passes entries are marked for deletion.  compute_update calls
\* mark_beam_deleted only; mark_particle_deleted has no caller, and is applied
\* here to scenes that hold no beam (no beam can lose an endpoint by it).
MarkParticle(id) ==
    /\ kpc = "idle"
    /\ id < buffers.metadata.particle_i_c
    /\ id \notin buffers.deleteMappings
    /\ buffers.metadata.beam_i_c = 0
    /\ \A i \in MaxParticles..(MapLen - 1) : buffers.mapping[i] = 0
    /\ buffers' = [buffers EXCEPT !.deleteMappings = mark_particle_deleted(@, id)]
    /\ UNCHANGED <<delete_index, lanes, kpc, frames, pre, bufferMapper, svars, wvars>>

MarkBeam(id) ==
    /\ kpc = "idle"
    /\ id < buffers.metadata.beam_i_c
    /\ (buffers.metadata.max_particles + id) \notin buffers.deleteMappings
    /\ buffers' = [buffers EXCEPT
                      !.deleteMappings = mark_beam_deleted(@, buffers.metadata, id)]
    /\ UNCHANGED <<delete_index, lanes, kpc, frames, pre, bufferMapper, svars, wvars>>

\* Device state right after a written scene of pc particles and bc beams was
\* uploaded: slot k under logical ID k, the rest of the mapping zero.
UploadedScene(pc, bc) ==
    [metadata |-> [NewMetadata EXCEPT !.particle_i_c = pc, !.beam_i_c = bc],
     particlesA |-> [i \in 0..(MaxParticles - 1) |-> 0],
     particlesB |-> [i \in 0..(MaxParticles - 1) |-> 0],
     beams |-> [i \in 0..(MaxBeams - 1) |->
                  IF i < bc THEN [particle_pair |-> <<0, 1>>, val |-> 0] ELSE ZeroBeam],
     mapping |-> [i \in 0..(MapLen - 1) |->
                    IF i < pc THEN i
                    ELSE IF i >= MaxParticles /\ i < MaxParticles + bc
                         THEN i - MaxParticles ELSE 0],
     particleForces |-> [i \in 0..(2 * MaxParticles - 1) |-> 0],
     deleteMappings |-> {}]

InitDelete ==
    /\ \E pc \in 0..MaxParticles, bc \in 0..MaxBeams :
          /\ bc > 0 => pc >= 2
          /\ buffers = UploadedScene(pc, bc)
    /\ NoKernel
    /\ bufferMapper = <<>>
    /\ NoStore
    /\ NoWorker

NextDelete ==
    \/ DeleteBegin
    \/ \E gid \in Lanes : LaneSub(gid)
    \/ \E gid \in Lanes : LaneLoad(gid)
    \/ \E gid \in Lanes : LaneStore(gid)
    \/ DeleteEnd
    \/ \E id \in 0..(MaxParticles - 1) : MarkParticle(id)
    \/ \E id \in 0..(MaxBeams - 1) : MarkBeam(id)

SpecDelete == InitDelete /\ [][NextDelete]_vars

\* -------------------------------------------------------------- claims
Distinct(m, base, count) ==
    \A i, j \in 0..(count - 1) : i # j => m[base + i] # m[base + j]

C2_BeamsExactlyUnmarkedSurvive ==
    (kpc = "idle" /\ frames >= 1) =>
        LiveSlots(buffers, MaxParticles, buffers.metadata.beam_i_c)
            = pre.liveB \ pre.markB

\* C29: the step that ends a delete pass leaves every bit of the delete bitmap
\* zero and writes back ParticleCount and BeamCount as their values before the
\* pass minus the numbers of marked live particles and marked live beams (0 for
\* a count that was 0, whose cursor started at count - 1 = 0xFFFFFFFF).
C29_PassClearsBitmapAndCounts ==
    [][DeleteEnd =>
          /\ buffers'.deleteMappings = {}
          /\ buffers'.metadata.particle_i_c
                = buffers.metadata.particle_i_c - Cardinality(pre.markP)
          /\ buffers'.metadata.beam_i_c
                = buffers.metadata.beam_i_c - Cardinality(pre.markB)
          /\ buffers.metadata.particle_i_c = 0 => buffers'.metadata.particle_i_c = 0
          /\ buffers.metadata.beam_i_c = 0 => buffers'.metadata.beam_i_c = 0]_vars

\* A pass has ended that started with two marked beams among three and a
\* particle count that its cursor left alone.
C29_Witness ==
    /\ kpc = "idle"
    /\ frames >= 1
    /\ Cardinality(pre.markB) = 2
    /\ Cardinality(pre.liveB) = 3
    /\ buffers.metadata.beam_i_c = 1
    /\ buffers.deleteMappings = {}

\* ------------------------------------------------------------ BufferMapper
\* Host-side typed arrays are functions on 0..(n - 1); a read outside the array
\* yields undefined, which a Uint16Array store turns into 0.
At(arr, i) == IF i \in DOMAIN arr THEN arr[i] ELSE 0

\* Uint16Array.prototype.indexOf: the first index holding v, or -1.
indexOf(arr, v) ==
    LET hits == {i \in DOMAIN arr : arr[i] = v}
    IN IF hits = {} THEN -1 ELSE CHOOSE i \in hits : \A j \in hits : i <= j

\* new BufferMapper(maxByteLength): both capacities come from the same expression,
\* which divides by Particle.stride.
BufferMapper(maxByteLength) ==
    LET maxParticles == Min(Min(U16, maxByteLength \div 4), maxByteLength \div ParticleStride)
        maxBeams == Min(Min(U16, maxByteLength \div 4), maxByteLength \div ParticleStride)
    IN [maxParticles |-> maxParticles,
        maxBeams |-> maxBeams,
        metadata |-> Metadata(maxParticles, maxBeams),
        particleData |-> [i \in 0..(maxParticles - 1) |-> 0],
        beamData |-> [i \in 0..(maxBeams - 1) |-> ZeroBeam],
        mapping |-> [i \in 0..(maxParticles + maxBeams - 1) |-> 0],
        particles |-> <<>>,
        beams |-> <<>>,
        particleBeams |-> {}]

\* The byte limit under which the mapper's capacity is MaxParticles.
MaxByteLength == MaxParticles * ParticleStride

\* Map.has / Map.get / Map.delete on the insertion-ordered maps.
Has(seq, id) == \E i \in 1..Len(seq) : seq[i].id = id
PosOf(seq, id) == CHOOSE i \in 1..Len(seq) : seq[i].id = id
Without(seq, id) == SelectSeq(seq, LAMBDA e : e.id # id)

\* Particle.to: the mapping entry of the ID and the f32 record at the slot.
Particle_to(bm, p, index) ==
    [bm EXCEPT !.mapping = IF p.id \in DOMAIN @ THEN [@ EXCEPT ![p.id] = index] ELSE @,
               !.particleData = [@ EXCEPT ![index] = Fround(p.val)]]

\* Particle.from
Particle_from(bm, id) == [id |-> id, val |-> At(bm.particleData, At(bm.mapping, id))]

\* Beam.to: the mapping entry is written first, then the endpoint IDs are looked
\* up in the mapping buffer.
Beam_to(bm, b, index, mBufOffset) ==
    LET m == IF (mBufOffset + b.id) \in DOMAIN bm.mapping
             THEN [bm.mapping EXCEPT ![mBufOffset + b.id] = index] ELSE bm.mapping
        indexA == At(m, b.a)
        indexB == At(m, b.b)
    IN [bm EXCEPT !.mapping = m,
                  !.beamData = [@ EXCEPT ![index] =
                      [particle_pair |-> <<indexA, indexB>>, val |-> Fround(b.val)]]]

\* Beam.from: the endpoint IDs are recovered with indexOf over the whole mapping buffer.
Beam_from(bm, id, mBufOffset) ==
    LET index == At(bm.mapping, mBufOffset + id)
        rec == IF index \in DOMAIN bm.beamData THEN bm.beamData[index] ELSE ZeroBeam
    IN [id |-> id,
        a |-> indexOf(bm.mapping, rec.particle_pair[1]),
        b |-> indexOf(bm.mapping, rec.particle_pair[2]),
        val |-> rec.val]

addParticle(bm, p) ==
    IF Len(bm.particles) = bm.maxParticles \/ Has(bm.particles, p.id)
    THEN [ok |-> FALSE, bm |-> bm]
    ELSE [ok |-> TRUE, bm |-> [bm EXCEPT !.particles = Append(@, p)]]

addBeamUnbounded(bm, b) ==
    IF Has(bm.beams, b.id)
    THEN [ok |-> FALSE, bm |-> bm]
    ELSE [ok |-> TRUE,
          bm |-> [bm EXCEPT !.beams = Append(@, b),
                            !.particleBeams = @ \cup {<<b.a, b>>, <<b.b, b>>}]]

addBeam(bm, b) ==
    IF Len(bm.beams) = bm.maxBeams \/ Has(bm.beams, b.id)
    THEN [ok |-> FALSE, bm |-> bm]
    ELSE [ok |-> TRUE,
          bm |-> [bm EXCEPT !.beams = Append(@, b),
                            !.particleBeams = @ \cup {<<b.a, b>>, <<b.b, b>>}]]

removeParticle(bm, id) ==
    [ok |-> Has(bm.particles, id),
     bm |-> [bm EXCEPT !.particles = Without(@, id)]]

removeBeamIndexOnly(bm, id) ==
    IF ~Has(bm.beams, id)
    THEN [ok |-> FALSE, bm |-> bm]
    ELSE LET beam == bm.beams[PosOf(bm.beams, id)]
         IN [ok |-> TRUE,
             bm |-> [bm EXCEPT !.particleBeams = @ \ {<<beam.a, beam>>, <<beam.b, beam>>}]]

removeBeam(bm, id) ==
    IF ~Has(bm.beams, id)
    THEN [ok |-> FALSE, bm |-> bm]
    ELSE LET beam == bm.beams[PosOf(bm.beams, id)]
         IN [ok |-> TRUE,
             bm |-> [bm EXCEPT !.beams = Without(@, id),
                               !.particleBeams = @ \ {<<beam.a, beam>>, <<beam.b, beam>>}]]

getConnectedBeams(bm, id) == {pb[2] : pb \in {x \in bm.particleBeams : x[1] = id}}

clear(bm) == [bm EXCEPT !.particles = <<>>, !.beams = <<>>, !.particleBeams = {}]

\* writeState: logical IDs are reassigned in insertion order, slot i to the i-th
\* particle / beam; beam endpoints go through particleIdRemap, falling back to the
\* stored ID when the particle is not in the store.
RECURSIVE WriteParticles(_, _, _)
WriteParticles(bm, particles, i) ==
    IF i >= Len(particles) THEN bm
    ELSE WriteParticles(Particle_to(bm, [id |-> i, val |-> particles[i + 1].val], i),
                        particles, i + 1)

particleIdRemapUnmapped(particles, id) == id

particleIdRemap(particles, id) ==
    IF Has(particles, id) THEN PosOf(particles, id) - 1 ELSE id

RECURSIVE WriteBeams(_, _, _)
WriteBeams(bm, beams, i) ==
    IF i >= Len(beams) THEN bm
    ELSE LET b == beams[i + 1]
             nb == [id |-> i,
                    a |-> particleIdRemap(bm.particles, b.a),
                    b |-> particleIdRemap(bm.particles, b.b),
                    val |-> b.val]
         IN WriteBeams(Beam_to(bm, nb, i, bm.maxParticles), beams, i + 1)

writeState(bm) ==
    LET counted == [bm EXCEPT !.metadata.particle_i_c = Len(bm.particles),
                              !.metadata.beam_i_c = Len(bm.beams)]
    IN WriteBeams(WriteParticles(counted, bm.particles, 0), bm.beams, 0)

\* loadState: the store is rebuilt from the buffers, IDs 0..count-1.
RECURSIVE LoadParticles(_, _, _)
LoadParticles(bm, pCount, i) ==
    IF i >= pCount THEN bm
    ELSE LoadParticles(addParticle(bm, Particle_from(bm, i)).bm, pCount, i + 1)

RECURSIVE LoadBeams(_, _, _)
LoadBeams(bm, bCount, i) ==
    IF i >= bCount THEN bm
    ELSE LoadBeams(addBeam(bm, Beam_from(bm, i, bm.maxParticles)).bm, bCount, i + 1)

loadState(bm) ==
    LET c == clear(bm)
    IN LoadBeams(LoadParticles(c, c.metadata.particle_i_c, 0), c.metadata.beam_i_c, 0)

\* n elements of a typed array from index from on, as a sequence.
Slice(arr, from, n) == [i \in 1..n |-> arr[from + i - 1]]

\* uint16View[0..4] = the byte sizes of the sections: a store into a Uint16Array
\* keeps the value modulo 2^16.
SectionSizes(pc, bc) ==
    [particleMappingSize |-> (2 * pc) % U16,
     particleDataSize |-> (ParticleStride * pc) % U16,
     beamMappingSize |-> (2 * bc) % U16,
     beamDataSize |-> (BeamStride * bc) % U16,
     metadataSize |-> (4 * 8) % U16]

\* createSnapshotBuffer: writeState, then the u16 header of section sizes in bytes,
\* the physics constants and the four live prefixes.
createSnapshotBuffer(bm) ==
    LET w == writeState(bm)
        pc == w.metadata.particle_i_c
        bc == w.metadata.beam_i_c
    IN [bm |-> w,
        buffer |-> [particleMappingSize |-> SectionSizes(pc, bc).particleMappingSize,
                    particleDataSize |-> SectionSizes(pc, bc).particleDataSize,
                    beamMappingSize |-> SectionSizes(pc, bc).beamMappingSize,
                    beamDataSize |-> SectionSizes(pc, bc).beamDataSize,
                    metadataSize |-> SectionSizes(pc, bc).metadataSize,
                    metadata |-> w.metadata.physicsConstants,
                    particleMapping |-> Slice(w.mapping, 0, pc),
                    particleData |-> Slice(w.particleData, 0, pc),
                    beamMapping |-> Slice(w.mapping, w.maxParticles, bc),
                    beamData |-> Slice(w.beamData, 0, bc)]]

\* Uint8Array.set of the first n elements of a section at element offset off.
SetPrefix(arr, section, off, n) ==
    [i \in DOMAIN arr |-> IF i >= off /\ i < off + n THEN section[i - off + 1] ELSE arr[i]]

\* loadSnapshotbuffer up to and including the copies (before loadState).
CopySnapshot(bm, buf) ==
    [bm EXCEPT
        !.metadata.physicsConstants = buf.metadata,
        !.metadata.particle_i_c = buf.particleMappingSize \div 2,
        !.metadata.beam_i_c = buf.beamMappingSize \div 2,
        !.mapping = SetPrefix(SetPrefix(@, buf.particleMapping, 0, buf.particleMappingSize \div 2),
                              buf.beamMapping, bm.maxParticles, buf.beamMappingSize \div 2),
        !.particleData = SetPrefix(@, buf.particleData, 0, buf.particleDataSize \div ParticleStride),
        !.beamData = SetPrefix(@, buf.beamData, 0, buf.beamDataSize \div BeamStride)]

\* The capacity test of loadSnapshotbuffer: the header's byte sizes against the
\* capacities.
TooLarge(bm, buf) ==
    buf.particleMappingSize > bm.maxParticles \/ buf.beamMappingSize > bm.maxBeams

loadSnapshotbufferCopyFirst(bm, buf) ==
    IF TooLarge(bm, buf)
    THEN [ok |-> FALSE, bm |-> [bm EXCEPT !.metadata.physicsConstants = buf.metadata]]
    ELSE [ok |-> TRUE, bm |-> loadState(CopySnapshot(bm, buf))]

loadSnapshotbuffer(bm, buf) ==
    IF TooLarge(bm, buf)
    THEN [ok |-> FALSE, bm |-> bm]
    ELSE [ok |-> TRUE, bm |-> loadState(CopySnapshot(bm, buf))]

\* ------------------------------------------------- the scene store in use
\* The doubles handed to the store, and the IDs its callers use.
Vals == 0..MaxVal
StoreByteLength == StoreCapacity * ParticleStride
ParticleIds == 0..(BufferMapper(StoreByteLength).maxParticles - 1)
BeamIds == 0..(BufferMapper(StoreByteLength).maxBeams - 1)

\* The scene a store holds, by position in insertion order (logical IDs are
\* reassigned on every write, positions are not): the particle records, the
\* beams with the positions of their endpoints (0: not in the store), and the
\* physics constants.
SceneOf(bm) ==
    LET pos(id) == IF Has(bm.particles, id) THEN PosOf(bm.particles, id) ELSE 0
    IN [particles |-> [i \in 1..Len(bm.particles) |-> bm.particles[i].val],
        beams |-> [i \in 1..Len(bm.beams) |->
                      [a |-> pos(bm.beams[i].a), b |-> pos(bm.beams[i].b),
                       val |-> bm.beams[i].val]],
        constants |-> bm.metadata.physicsConstants]

Edit(r) ==
    /\ snapshot = <<>>
    /\ bufferMapper' = r.bm
    /\ lastOp' = [op |-> "edit", ok |-> r.ok]
    /\ UNCHANGED <<snapshot, buffers, kvars, wvars>>

AddParticle(id, val) == Edit(addParticle(bufferMapper, [id |-> id, val |-> val]))

\* The callers join two different particles that are in the store.
AddBeam(id, a, b, val) ==
    /\ a # b
    /\ Has(bufferMapper.particles, a)
    /\ Has(bufferMapper.particles, b)
    /\ Edit(addBeam(bufferMapper, [id |-> id, a |-> a, b |-> b, val |-> val]))

RemoveParticle(id) == Edit(removeParticle(bufferMapper, id))

RemoveBeam(id) == Edit(removeBeam(bufferMapper, id))

Clear == Edit([ok |-> TRUE, bm |-> clear(bufferMapper)])

WriteState ==
    /\ snapshot = <<>>
    /\ bufferMapper' = writeState(bufferMapper)
    /\ lastOp' = [op |-> "writeState", ok |-> TRUE]
    /\ UNCHANGED <<snapshot, buffers, kvars, wvars>>

LoadState ==
    /\ snapshot = <<>>
    /\ bufferMapper' = loadState(bufferMapper)
    /\ lastOp' = [op |-> "loadState", ok |-> TRUE]
    /\ UNCHANGED <<snapshot, buffers, kvars, wvars>>

\* The snapshot is kept together with the scene it was taken of, until it is
\* loaded back.
CreateSnapshotBuffer ==
    LET r == createSnapshotBuffer(bufferMapper)
    IN /\ snapshot = <<>>
       /\ bufferMapper' = r.bm
       /\ snapshot' = [buffer |-> r.buffer, scene |-> SceneOf(bufferMapper)]
       /\ lastOp' = [op |-> "createSnapshotBuffer", ok |-> TRUE]
       /\ UNCHANGED <<buffers, kvars, wvars>>

LoadSnapshotbuffer ==
    /\ snapshot # <<>>
    /\ LET r == loadSnapshotbuffer(bufferMapper, snapshot.buffer)
       IN /\ bufferMapper' = r.bm
          /\ lastOp' = [op |-> "loadSnapshotbuffer", ok |-> r.ok,
                        buffer |-> snapshot.buffer, scene |-> snapshot.scene]
    /\ snapshot' = <<>>
    /\ UNCHANGED <<buffers, kvars, wvars>>

InitStore ==
    /\ bufferMapper = BufferMapper(StoreByteLength)
    /\ snapshot = <<>>
    /\ lastOp = [op |-> "new", ok |-> TRUE]
    /\ buffers = <<>>
    /\ NoKernel
    /\ NoWorker

NextStore ==
    \/ \E id \in ParticleIds, val \in Vals : AddParticle(id, val)
    \/ \E id \in BeamIds, a, b \in ParticleIds, val \in Vals : AddBeam(id, a, b, val)
    \/ \E id \in ParticleIds : RemoveParticle(id)
    \/ \E id \in BeamIds : RemoveBeam(id)
    \/ Clear
    \/ WriteState
    \/ LoadState
    \/ CreateSnapshotBuffer
    \/ LoadSnapshotbuffer

SpecStore == InitStore /\ [][NextStore]_vars

\* The physical slots of the live particles, as the host buffers record them.
LiveParticleSlots(bm) == {bm.mapping[i] : i \in 0..(bm.metadata.particle_i_c - 1)}

\* Both packed endpoint indices of the live beam with logical ID i are live slots.
EndpointsLive(bm, i) ==
    LET rec == bm.beamData[bm.mapping[bm.maxParticles + i]]
    IN /\ rec.particle_pair[1] \in LiveParticleSlots(bm)
       /\ rec.particle_pair[2] \in LiveParticleSlots(bm)

\* C3: after any sequence of store operations followed by write-state, both
\* packed endpoint indices of every live beam are slots of live particles.
C3_BeamEndpointsLive ==
    lastOp.op = "writeState" =>
        \A i \in 0..(bufferMapper.metadata.beam_i_c - 1) : EndpointsLive(bufferMapper, i)

\* A scene whose beams all join stored particles and whose records are f32 values.
WellFormed(scene) ==
    /\ \A i \in 1..Len(scene.particles) : Fround(scene.particles[i]) = scene.particles[i]
    /\ \A i \in 1..Len(scene.beams) :
          /\ scene.beams[i].a # 0
          /\ scene.beams[i].b # 0
          /\ Fround(scene.beams[i].val) = scene.beams[i].val

\* C4: loading the snapshot saved of a well-formed scene into a store of the same
\* capacity succeeds and yields the same scene (counts, constants, particle
\* records, beam records and endpoints, position by position).
C4_SnapshotRoundTrip ==
    (lastOp.op = "loadSnapshotbuffer" /\ WellFormed(lastOp.scene)) =>
        /\ lastOp.ok
        /\ SceneOf(bufferMapper) = lastOp.scene

\* The live counts a snapshot carries.
SnapshotParticleCount(buf) == Len(buf.particleMapping)
SnapshotBeamCount(buf) == Len(buf.beamMapping)

\* C6: a snapshot load fails exactly when the snapshot's particle count exceeds
\* MaxParticles or its beam count exceeds MaxBeams.
C6_RejectsExactlyOverCapacity ==
    lastOp.op = "loadSnapshotbuffer" =>
        (~lastOp.ok <=>
            \/ SnapshotParticleCount(lastOp.buffer) > bufferMapper.maxParticles
            \/ SnapshotBeamCount(lastOp.buffer) > bufferMapper.maxBeams)

\* ------------------------------------------------ the snapshot header
\* The header createSnapshotBuffer writes for a store of pc particles and bc
\* beams, for counts up to the capacity of a mapper whose byte limit does not
\* bind: Math.min(65536, maxByteLength / 4, Math.floor(maxByteLength / stride)).
AmpleByteLength == U16 * BeamStride
LargestCapacity ==
    Min(Min(U16, AmpleByteLength \div 4), AmpleByteLength \div ParticleStride)
SceneCounts == {0, 1, 2, 1638, 1639, 2730, 2731, 32767, 32768, LargestCapacity}

WriteHeader ==
    /\ lastOp.op = "writeState"
    /\ snapshot' = SectionSizes(lastOp.particleCount, lastOp.beamCount)
    /\ lastOp' = [lastOp EXCEPT !.op = "createSnapshotBuffer"]
    /\ UNCHANGED <<buffers, bufferMapper, kvars, wvars>>

InitHeader ==
    /\ \E pc, bc \in SceneCounts :
          lastOp = [op |-> "writeState", particleCount |-> pc, beamCount |-> bc]
    /\ snapshot = <<>>
    /\ buffers = <<>>
    /\ bufferMapper = <<>>
    /\ NoKernel
    /\ NoWorker

SpecHeader == InitHeader /\ [][WriteHeader]_vars

\* C26: for every scene within the capacities each size field of the snapshot
\* header equals the byte length of its section: 2 and 24 bytes per particle,
\* 2 and 40 bytes per beam, and the 32 bytes of the constants.
C26_HeaderHoldsByteLengths ==
    lastOp.op = "createSnapshotBuffer" =>
        /\ snapshot.particleMappingSize = 2 * lastOp.particleCount
        /\ snapshot.particleDataSize = 24 * lastOp.particleCount
        /\ snapshot.beamMappingSize = 2 * lastOp.beamCount
        /\ snapshot.beamDataSize = 40 * lastOp.beamCount
        /\ snapshot.metadataSize = 32

\* The slot writeState assigns to the stored particle with this ID: its position
\* in insertion order, counted from 0.
SlotOf(bm, id) == PosOf(bm.particles, id) - 1

\* The buffers hold the store packed in insertion order: the counts, record and
\* mapping entry k of the k-th particle and beam, and for every beam (for every
\* beam whose endpoints are both stored, if attachedOnly) the slots of its
\* endpoints as its packed pair.
PackedInOrder(bm, attachedOnly) ==
    /\ bm.metadata.particle_i_c = Len(bm.particles)
    /\ bm.metadata.beam_i_c = Len(bm.beams)
    /\ \A k \in 1..Len(bm.particles) :
          /\ bm.mapping[k - 1] = k - 1
          /\ bm.particleData[k - 1] = Fround(bm.particles[k].val)
    /\ \A k \in 1..Len(bm.beams) :
          LET beam == bm.beams[k]
              attached == Has(bm.particles, beam.a) /\ Has(bm.particles, beam.b)
          IN /\ bm.mapping[bm.maxParticles + k - 1] = k - 1
             /\ bm.beamData[k - 1].val = Fround(beam.val)
             /\ attached =>
                   bm.beamData[k - 1].particle_pair = <<SlotOf(bm, beam.a), SlotOf(bm, beam.b)>>
             /\ attachedOnly \/ attached

findParticle(bm, id) ==
    IF Has(bm.particles, id) THEN bm.particles[PosOf(bm.particles, id)] ELSE <<>>

findBeam(bm, id) ==
    IF Has(bm.beams, id) THEN bm.beams[PosOf(bm.beams, id)] ELSE <<>>

\* removeBeam called with a Beam object: the store's entry of the object's ID is
\* deleted, and the object itself is taken out of its endpoints' sets.
removeBeamObject(bm, beam) ==
    IF ~Has(bm.beams, beam.id)
    THEN [ok |-> FALSE, bm |-> bm]
    ELSE [ok |-> TRUE,
          bm |-> [bm EXCEPT !.beams = Without(@, beam.id),
                            !.particleBeams = @ \ {<<beam.a, beam>>, <<beam.b, beam>>}]]

\* The IDs callers use when the store is edited call by call: one more than the
\* store has room for.  Beams join particle 1 to one of its neighbours, stored
\* or not.
EditIds == 0..StoreCapacity
ParticlesHandled == {[id |-> id, val |-> 1] : id \in EditIds}
BeamsHandled ==
    {[id |-> id, a |-> e[1], b |-> e[2], val |-> 1] :
        id \in EditIds, e \in {x \in EditIds \X EditIds : x[1] + 1 = x[2]}}

\* One call of a store operation; the call, its argument, its result and the
\* store it was made on are kept.
Call(op, arg, r) ==
    /\ bufferMapper' = r.bm
    /\ lastOp' = [op |-> op, arg |-> arg, ok |-> r.ok, before |-> bufferMapper]
    /\ UNCHANGED <<snapshot, buffers, kvars, wvars>>

CallAddParticle(p) == Call("addParticle", p, addParticle(bufferMapper, p))
CallAddBeam(b) == Call("addBeam", b, addBeam(bufferMapper, b))
CallRemoveParticle(id) == Call("removeParticle", id, removeParticle(bufferMapper, id))
CallRemoveBeam(id) == Call("removeBeam", id, removeBeam(bufferMapper, id))
CallRemoveBeamObject(b) == Call("removeBeamObject", b, removeBeamObject(bufferMapper, b))
CallClear == Call("clear", 0, [ok |-> TRUE, bm |-> clear(bufferMapper)])

NextEdit ==
    \/ \E p \in ParticlesHandled : CallAddParticle(p)
    \/ \E b \in BeamsHandled : CallAddBeam(b)
    \/ \E id \in EditIds : CallRemoveParticle(id)
    \/ \E id \in EditIds : CallRemoveBeam(id)
    \/ \E b \in BeamsHandled : CallRemoveBeamObject(b)
    \/ CallClear

SpecEdit == InitStore /\ [][NextEdit]_vars

\* C16: addParticle (addBeam) returns false and leaves the store as it was when
\* the ID is already stored or the store holds maxParticles (maxBeams) entries;
\* in every other case it returns true, the entity is found under its ID, and
\* the entries stored before are still there.
C16_AddFailsExactly ==
    LET b == lastOp.before
    IN /\ lastOp.op = "addParticle" =>
             IF Len(b.particles) = b.maxParticles \/ findParticle(b, lastOp.arg.id) # <<>>
             THEN ~lastOp.ok /\ bufferMapper = b
             ELSE /\ lastOp.ok
                  /\ findParticle(bufferMapper, lastOp.arg.id) = lastOp.arg
                  /\ Len(bufferMapper.particles) = Len(b.particles) + 1
                  /\ \A id \in EditIds : id # lastOp.arg.id =>
                        findParticle(bufferMapper, id) = findParticle(b, id)
                  /\ bufferMapper.beams = b.beams
       /\ lastOp.op = "addBeam" =>
             IF Len(b.beams) = b.maxBeams \/ findBeam(b, lastOp.arg.id) # <<>>
             THEN ~lastOp.ok /\ bufferMapper = b
             ELSE /\ lastOp.ok
                  /\ findBeam(bufferMapper, lastOp.arg.id) = lastOp.arg
                  /\ Len(bufferMapper.beams) = Len(b.beams) + 1
                  /\ \A id \in EditIds : id # lastOp.arg.id =>
                        findBeam(bufferMapper, id) = findBeam(b, id)
                  /\ lastOp.arg \in getConnectedBeams(bufferMapper, lastOp.arg.a)
                  /\ lastOp.arg \in getConnectedBeams(bufferMapper, lastOp.arg.b)
                  /\ bufferMapper.particles = b.particles

\* A beam with a fresh ID was refused by a full store after a particle with a
\* fresh ID had been.
C16_Witness ==
    /\ lastOp.op = "addBeam"
    /\ ~lastOp.ok
    /\ Len(lastOp.before.beams) = lastOp.before.maxBeams
    /\ findBeam(lastOp.before, lastOp.arg.id) = <<>>
    /\ Len(bufferMapper.particles) = bufferMapper.maxParticles

\* C17: a remove call for an ID that is not stored returns false and leaves the
\* store as it was, and after any remove call the same call once more returns
\* false and leaves particles, beams and the per-particle beam index as they are.
C17_RemoveIdempotent ==
    LET b == lastOp.before
    IN /\ (lastOp.op = "removeParticle" /\ findParticle(b, lastOp.arg) = <<>>) =>
             ~lastOp.ok /\ bufferMapper = b
       /\ (lastOp.op = "removeBeam" /\ findBeam(b, lastOp.arg) = <<>>) =>
             ~lastOp.ok /\ bufferMapper = b
       /\ (lastOp.op = "removeBeamObject" /\ findBeam(b, lastOp.arg.id) = <<>>) =>
             ~lastOp.ok /\ bufferMapper = b
       /\ lastOp.op = "removeParticle" =>
             removeParticle(bufferMapper, lastOp.arg) = [ok |-> FALSE, bm |-> bufferMapper]
       /\ lastOp.op = "removeBeam" =>
             removeBeam(bufferMapper, lastOp.arg) = [ok |-> FALSE, bm |-> bufferMapper]
       /\ lastOp.op = "removeBeamObject" =>
             removeBeamObject(bufferMapper, lastOp.arg) = [ok |-> FALSE, bm |-> bufferMapper]

\* A remove call was made with a beam that is no longer stored: its ID is not in
\* the store while the beam is still in the set of its endpoint.
C17_Witness ==
    /\ lastOp.op = "removeBeamObject"
    /\ ~lastOp.ok
    /\ lastOp.arg \in getConnectedBeams(bufferMapper, lastOp.arg.a)
    /\ bufferMapper.particles # <<>>

\* C18: after removeParticle(p) returned true no stored beam has p as an endpoint.
C18_RemoveParticleRemovesBeams ==
    (lastOp.op = "removeParticle" /\ lastOp.ok) =>
        \A i \in 1..Len(bufferMapper.beams) :
            bufferMapper.beams[i].a # lastOp.arg /\ bufferMapper.beams[i].b # lastOp.arg

\* ------------------------------------------------------------ the worker
\* Metadata.setPhysicsConstants / getPhysicsConstants / setUserInput: stores into
\* Float32Array views of the host metadata buffer.
setPhysicsConstantsAdded(md, c) == [md EXCEPT !.physicsConstants = Fround(@ + c)]
setPhysicsConstants(md, c) == [md EXCEPT !.physicsConstants = Fround(c)]
getPhysicsConstants(md) == md.physicsConstants
setUserInput(md, u) == [md EXCEPT !.userInput = Fround(u)]

\* A write of the whole host metadata buffer.
writeMetadata(b, md) == [b EXCEPT !.metadata = md]

\* Metadata.writeUserInput: queue.writeBuffer of the user-input words only
\* (userInputViewF32: 8 words at byte 80, the user strength first).
writeUserInput(b, md) == [b EXCEPT !.metadata.userInput = md.userInput]

\* device.createBuffer: zero-filled buffers of the sizes of the mapper's buffers.
ZeroMetadata ==
    [particle_i_c |-> 0, beam_i_c |-> 0, max_particles |-> 0, max_beams |-> 0,
     physicsConstants |-> 0, userInput |-> 0]

createBuffers(bm) ==
    [metadata |-> ZeroMetadata,
     particlesA |-> [i \in DOMAIN bm.particleData |-> 0],
     particlesB |-> [i \in DOMAIN bm.particleData |-> 0],
     beams |-> [i \in DOMAIN bm.beamData |-> ZeroBeam],
     mapping |-> [i \in DOMAIN bm.mapping |-> 0],
     particleForces |-> [i \in 0..(2 * bm.maxParticles - 1) |-> 0],
     deleteMappings |-> {}]

\* The subticks option as the host hands it over: undefined, NaN, or the number
\* n / 2 (so that non-integers are covered); the subticks field is NaN or an integer.
Undefined == [k |-> "undefined", n |-> 0]
NaN == [k |-> "NaN", n |-> 0]
Half(n) == [k |-> "half", n |-> n]
Num(n) == [k |-> "num", n |-> n]

\* Math.ceil(a / b) for integers a and b > 0.
Ceil(a, b) == -((-a) \div b)

\* Math.ceil(opts.subticks / 2) * 2: NaN stays NaN, n / 2 gives ceil(n / 4) * 2.
RoundSubticks(opt) == IF opt.k = "NaN" THEN NaN ELSE Num(Ceil(opt.n, 4) * 2)

\* The constructor's option handling: the default stays when the option is undefined.
Subticks(opt) == IF opt.k = "undefined" THEN Num(DefaultSubticks) ELSE RoundSubticks(opt)

\* i < this.subticks (false for NaN).
Less(i, st) == st.k = "num" /\ i < st.n

\* The bind groups: computeA reads particlesA and writes particlesB, computeB the
\* other way round.
particles_read(group) == IF group = "computeA" THEN "particlesA" ELSE "particlesB"
particles_writeInPlace(group) == IF group = "computeA" THEN "particlesA" ELSE "particlesB"
particles_write(group) == IF group = "computeA" THEN "particlesB" ELSE "particlesA"

\* The bind group of update dispatch i.
BindGroupForSwapped(i) == IF i % 2 = 0 THEN "computeB" ELSE "computeA"
BindGroupFor(i) == IF i % 2 = 0 THEN "computeA" ELSE "computeB"

Command(cmd, arg) == [cmd |-> cmd, arg |-> arg]

\* for (let i = 0; i < this.subticks; i++) { setBindGroup; dispatchWorkgroups }:
\* the loop runs for i = 0, 1, ... while i < subticks.
Iterations(st) == IF Less(0, st) THEN st.n ELSE 0

RecordUpdates(st) ==
    [i \in 1..Iterations(st) |-> Command("dispatchUpdate", BindGroupFor(i - 1))]

\* Everything frame() hands to the queue, in order.
RecordFrame(st) ==
    <<Command("writeUserInput", "metadata")>>
        \o RecordUpdates(st)
        \o <<Command("dispatchDelete", "computeDelete"),
             Command("draw", "renderParticles"),
             Command("draw", "renderBeams"),
             Command("submit", "encoder")>>

\* compute_update, by its effect on the buffers: the record of every live slot is
\* read from particles_read, integrated and written to particles_write.  The
\* token of a record advances by 2 (an f32 value) within 0, 2, 4.
Integrate(v) == (v + 2) % 6

RECURSIVE UpdateSlots(_, _, _, _)
UpdateSlots(write, read, md, id) ==
    IF id >= md.particle_i_c THEN write
    ELSE LET index == At(md.mapping, id)
         IN UpdateSlots(IF index \in DOMAIN write
                        THEN [write EXCEPT ![index] = Integrate(read[index])]
                        ELSE write,
                        read, md, id + 1)

compute_update(b, group) ==
    LET md == [particle_i_c |-> b.metadata.particle_i_c, mapping |-> b.mapping]
    IN IF particles_write(group) = "particlesA"
       THEN [b EXCEPT !.particlesA = UpdateSlots(@, b.particlesB, md, 0)]
       ELSE [b EXCEPT !.particlesB = UpdateSlots(@, b.particlesA, md, 0)]

\* compute_delete when no entry is marked: the counts are written back from the
\* untouched cursors and the bitmap is cleared.
compute_delete(b) ==
    LET c == FinalCounts(b.metadata, InitCursor(b.metadata))
    IN [b EXCEPT !.metadata.particle_i_c = c[1],
                 !.metadata.beam_i_c = c[2],
                 !.deleteMappings = {}]

\* The queue executes the recorded commands in order.
ExecuteCommand(b, c) ==
    IF c.cmd = "dispatchUpdate" THEN compute_update(b, c.arg)
    ELSE IF c.cmd = "dispatchDelete" THEN compute_delete(b)
    ELSE b

\* Commands lo..hi in order: the first half, then the second half on its result
\* (bound as a value, which keeps the evaluation of long command lists shallow).
RECURSIVE Execute(_, _, _, _)
Execute(b, cmds, lo, hi) ==
    IF lo > hi THEN b
    ELSE IF lo = hi THEN ExecuteCommand(b, cmds[lo])
    ELSE LET mid == (lo + hi) \div 2
         IN CHOOSE r \in {Execute(x, cmds, mid + 1, hi) :
                             x \in {Execute(b, cmds, lo, mid)}} : TRUE

\* adapter.limits.maxStorageBufferBindingSize of the worker's device.
DeviceLimit == StoreByteLength

\* What the host sends: physics constants (a double that is not an f32 value),
\* user input, and snapshots saved on a device of capacity MaxParticles that hold
\* n >= 1 particles and no beam.
ConstantsSent == {5}
InputsSent == {2}

RECURSIVE WithParticles(_, _)
WithParticles(bm, n) ==
    IF n = 0 THEN bm
    ELSE addParticle(WithParticles(bm, n - 1), [id |-> n - 1, val |-> 2]).bm

SnapshotOf(n, c) ==
    createSnapshotBuffer(
        [WithParticles(BufferMapper(MaxByteLength), n)
            EXCEPT !.metadata = setPhysicsConstants(@, c)]).buffer

SnapshotsSent == {SnapshotOf(n, 2 * n + 4) : n \in 1..MaxParticles}

\* The request handlers in progress and the holder of the lock.
Tasks == 1..MaxTasks
FrameHolder == MaxTasks + 1
IdleTask == [type |-> "idle", pc |-> "idle", data |-> 0]
NoMessage == [type |-> "none", data |-> 0]
Message(type, data) == [type |-> type, data |-> data]

\* A handler starts in the first position that is free.
FreeTask(t) ==
    /\ tasks[t].type = "idle"
    /\ \A u \in Tasks : u < t => tasks[u].type # "idle"

Start(t, type, pc, data) ==
    tasks' = [tasks EXCEPT ![t] = [type |-> type, pc |-> pc, data |-> data]]

\* onMessage: PHYSICS_CONSTANTS, GET_PHYSICS_CONSTANTS and SNAPSHOT_SAVE begin
\* with loadBuffers, which runs up to its wait for the lock.
ReceivePhysicsConstants(t, c) ==
    /\ FreeTask(t)
    /\ Start(t, "PHYSICS_CONSTANTS", "lb_acquire", c)
    /\ posted' = NoMessage
    /\ UNCHANGED <<buffers, bufferMapper, lock, staging, frameLoop, encoder,
                   userInput, subticks, engine, host, kvars, svars>>

ReceiveGetPhysicsConstants(t) ==
    /\ FreeTask(t)
    /\ Start(t, "GET_PHYSICS_CONSTANTS", "lb_acquire", 0)
    /\ posted' = NoMessage
    /\ UNCHANGED <<buffers, bufferMapper, lock, staging, frameLoop, encoder,
                   userInput, subticks, engine, host, kvars, svars>>

ReceiveSnapshotSave(t) ==
    /\ FreeTask(t)
    /\ Start(t, "SNAPSHOT_SAVE", "lb_acquire", 0)
    /\ posted' = NoMessage
    /\ UNCHANGED <<buffers, bufferMapper, lock, staging, frameLoop, encoder,
                   userInput, subticks, engine, host, kvars, svars>>

\* onMessage, SNAPSHOT_LOAD: loadSnapshotbuffer runs at once; a rejected load is
\* answered in the same run, an accepted one goes on to writeBuffers.  The host
\* sends a snapshot when no other load is in progress; requests of the other
\* kinds and frames may be.
ReceiveSnapshotLoad(t, buffer) ==
    LET res == loadSnapshotbuffer(bufferMapper, buffer)
    IN /\ FreeTask(t)
       /\ \A u \in Tasks : tasks[u].type # "SNAPSHOT_LOAD"
       /\ bufferMapper' = res.bm
       /\ IF res.ok
          THEN /\ Start(t, "SNAPSHOT_LOAD", "wb_acquire", buffer)
               /\ posted' = NoMessage
          ELSE /\ tasks' = tasks
               /\ posted' = Message("SNAPSHOT_LOAD", FALSE)
       /\ UNCHANGED <<buffers, lock, staging, frameLoop, encoder, userInput,
                      subticks, engine, host, kvars, svars>>

\* onMessage, INPUT.
ReceiveInput(u) ==
    /\ userInput' = u
    /\ posted' = Message("INPUT", 0)
    /\ UNCHANGED <<buffers, bufferMapper, tasks, lock, staging, frameLoop, encoder,
                   subticks, engine, host, kvars, svars>>

\* await this.lock.acquire(): the handler goes on once the lock is free.
Acquire(t, from, to) ==
    /\ tasks[t].pc = from
    /\ lock = 0
    /\ lock' = t
    /\ tasks' = [tasks EXCEPT ![t].pc = to]
    /\ posted' = NoMessage
    /\ UNCHANGED <<buffers, bufferMapper, staging, frameLoop, encoder, userInput,
                   subticks, engine, host, kvars, svars>>

LoadBuffersAcquire(t) == Acquire(t, "lb_acquire", "lb_drain")

\* loadBuffers after the queue has drained: the copies into the staging buffers
\* are submitted.
LoadBuffersCopy(t) ==
    /\ tasks[t].pc = "lb_drain"
    /\ staging' = [metadata |-> buffers.metadata, particles |-> buffers.particlesA,
                   beams |-> buffers.beams, mapping |-> buffers.mapping]
    /\ tasks' = [tasks EXCEPT ![t].pc = "lb_map"]
    /\ posted' = NoMessage
    /\ UNCHANGED <<buffers, bufferMapper, lock, frameLoop, encoder, userInput,
                   subticks, engine, host, kvars, svars>>

\* The host buffers after the staging buffers were copied over them.
ReadBack(bm, st) ==
    [bm EXCEPT !.metadata = st.metadata, !.particleData = st.particles,
               !.beamData = st.beams, !.mapping = st.mapping]

\* loadBuffers once the work is done and the staging buffers are mapped: they
\* are copied over the host buffers and unmapped (their content is not read
\* again before the next copy), the lock is released, and the handler continues.
LoadBuffersMapped(t) ==
    LET bm == ReadBack(bufferMapper, staging)
    IN /\ tasks[t].pc = "lb_map"
       /\ staging' = <<>>
       /\ lock' = 0
       /\ CASE tasks[t].type = "PHYSICS_CONSTANTS" ->
                 /\ bufferMapper' =
                       [bm EXCEPT !.metadata = setPhysicsConstants(@, tasks[t].data)]
                 /\ tasks' = [tasks EXCEPT ![t].pc = "wb_acquire"]
                 /\ posted' = NoMessage
            [] tasks[t].type = "GET_PHYSICS_CONSTANTS" ->
                 /\ bufferMapper' = bm
                 /\ tasks' = [tasks EXCEPT ![t] = IdleTask]
                 /\ posted' = Message("PHYSICS_CONSTANTS", getPhysicsConstants(bm.metadata))
            [] tasks[t].type = "SNAPSHOT_SAVE" ->
                 LET r == createSnapshotBuffer(loadState(bm))
                 IN /\ bufferMapper' = r.bm
                    /\ tasks' = [tasks EXCEPT ![t] = IdleTask]
                    /\ posted' = Message("SNAPSHOT_SAVE", r.buffer)
       /\ UNCHANGED <<buffers, frameLoop, encoder, userInput, subticks, engine, host, kvars, svars>>

WriteBuffersAcquire(t) == Acquire(t, "wb_acquire", "wb_drain")

\* The device buffers after writeBuffers' queue writes and clears.
Written(b, bm) ==
    [b EXCEPT !.metadata = bm.metadata, !.mapping = bm.mapping,
              !.particlesA = bm.particleData, !.beams = bm.beamData,
              !.particleForces = [i \in DOMAIN @ |-> 0],
              !.deleteMappings = {},
              !.particlesB = [i \in DOMAIN @ |-> 0]]

\* writeBuffers after the queue has drained: the host buffers as they are at this
\* moment are written, the scratch buffers cleared.
WriteBuffersWrite(t) ==
    /\ tasks[t].pc = "wb_drain"
    /\ buffers' = Written(buffers, bufferMapper)
    /\ tasks' = [tasks EXCEPT ![t].pc = "wb_done"]
    /\ posted' = NoMessage
    /\ UNCHANGED <<bufferMapper, lock, staging, frameLoop, encoder, userInput,
                   subticks, engine, host, kvars, svars>>

\* writeBuffers once the work is done: the lock is released and the handler posts
\* its answer.
WriteBuffersDone(t) ==
    /\ tasks[t].pc = "wb_done"
    /\ lock' = 0
    /\ tasks' = [tasks EXCEPT ![t] = IdleTask]
    /\ posted' = IF tasks[t].type = "SNAPSHOT_LOAD"
                 THEN Message("SNAPSHOT_LOAD", TRUE)
                 ELSE Message("PHYSICS_CONSTANTS", getPhysicsConstants(bufferMapper.metadata))
    /\ UNCHANGED <<buffers, bufferMapper, staging, frameLoop, encoder, userInput,
                   subticks, engine, host, kvars, svars>>

\* startDraw / frame: the animation-frame callback waits for the lock.
FrameAcquire ==
    /\ frameLoop = "acquire"
    /\ lock = 0
    /\ lock' = FrameHolder
    /\ frameLoop' = "drain"
    /\ posted' = NoMessage
    /\ UNCHANGED <<buffers, bufferMapper, tasks, staging, encoder, userInput,
                   subticks, engine, host, kvars, svars>>

\* frame after the queue has drained: the user input is stored in the host
\* metadata and written to the device, the passes are recorded and submitted, and
\* the queue executes them.
FrameSubmit ==
    LET md == setUserInput(bufferMapper.metadata, userInput)
        cmds == RecordFrame(subticks)
    IN /\ frameLoop = "drain"
       /\ bufferMapper' = [bufferMapper EXCEPT !.metadata = md]
       /\ encoder' = cmds
       /\ buffers' = Execute(writeUserInput(buffers, md), cmds, 1, Len(cmds))
       /\ frameLoop' = "done"
       /\ posted' = NoMessage
       /\ UNCHANGED <<tasks, lock, staging, userInput, subticks, engine, host, kvars, svars>>

\* frame once the work is done: the lock is released, the frame rate posted, and
\* startDraw asks for the next animation frame while (this.running).
FrameDone ==
    /\ frameLoop = "done"
    /\ lock' = 0
    /\ frameLoop' = IF engine.running THEN "acquire" ELSE "off"
    /\ posted' = Message("FRAMERATE", 0)
    /\ UNCHANGED <<buffers, bufferMapper, tasks, staging, encoder, userInput,
                   subticks, engine, host, kvars, svars>>

\* The worker's fields outside the simulation: running, the 'message' listener
\* (addEventListener, line 479), the device promise ("ready" once resolved,
\* "never" when it does not settle, "destroyed" after device.destroy()), the
\* particleRadius field, the destroy() calls waiting at await this.device, and
\* whether a request was handled since the listener was removed.
Engine(device, radius) ==
    [running |-> TRUE, listening |-> TRUE, device |-> device,
     particleRadius |-> radius, destroying |-> 0]

\* The host engine: its running flag, the document listeners, the Worker, the
\* DESTROY message on its way to the worker, the worker's DESTROY on its way
\* to the host, and an error event delivered to the worker's 'error' listener.
Host ==
    [running |-> TRUE, listeners |-> TRUE, worker |-> "running",
     sent |-> FALSE, received |-> FALSE, error |-> FALSE]

\* The worker after construction.
Constructed(opt) ==
    /\ engine = Engine("ready", particle_radius)
    /\ host = Host
    /\ bufferMapper = BufferMapper(DeviceLimit)
    /\ buffers = createBuffers(BufferMapper(DeviceLimit))
    /\ tasks = [t \in Tasks |-> IdleTask]
    /\ lock = 0
    /\ staging = <<>>
    /\ frameLoop = "acquire"
    /\ encoder = <<>>
    /\ userInput = 0
    /\ subticks = Subticks(opt)
    /\ posted = NoMessage
    /\ NoKernel

InitWorkerWith(opt) == Constructed(opt) /\ NoStore

\* The application hands over whole numbers of subticks, at least 1.
InitWorker == \E n \in 1..MaxSubticks : InitWorkerWith(Half(2 * n))

NextWorker ==
    \/ \E t \in Tasks, c \in ConstantsSent : ReceivePhysicsConstants(t, c)
    \/ \E t \in Tasks : ReceiveGetPhysicsConstants(t)
    \/ \E t \in Tasks : ReceiveSnapshotSave(t)
    \/ \E t \in Tasks, buffer \in SnapshotsSent : ReceiveSnapshotLoad(t, buffer)
    \/ \E u \in InputsSent : ReceiveInput(u)
    \/ \E t \in Tasks : LoadBuffersAcquire(t)
    \/ \E t \in Tasks : LoadBuffersCopy(t)
    \/ \E t \in Tasks : LoadBuffersMapped(t)
    \/ \E t \in Tasks : WriteBuffersAcquire(t)
    \/ \E t \in Tasks : WriteBuffersWrite(t)
    \/ \E t \in Tasks : WriteBuffersDone(t)
    \/ FrameAcquire
    \/ FrameSubmit
    \/ FrameDone

SpecWorker == InitWorker /\ [][NextWorker]_vars

\* C30: the input write of a frame changes only the input region of the device
\* metadata: the capacities and the physics constants on the device are as
\* they were, and the device after the frame is what the frame's passes make
\* of the buffers as they were with the input region alone replaced by the
\* host's (so the counts change only by the passes).
C30_InputWriteTouchesInputOnly ==
    [][FrameSubmit =>
          /\ buffers'.metadata.max_particles = buffers.metadata.max_particles
          /\ buffers'.metadata.max_beams = buffers.metadata.max_beams
          /\ buffers'.metadata.physicsConstants = buffers.metadata.physicsConstants
          /\ buffers'.metadata.userInput = bufferMapper'.metadata.userInput
          /\ buffers' = Execute([buffers EXCEPT !.metadata.userInput =
                                     bufferMapper'.metadata.userInput],
                                encoder', 1, Len(encoder'))]_vars

\* A frame has written a user input while the host's constants and counts
\* were not the device's.
C30_Witness ==
    /\ frameLoop = "done"
    /\ buffers.metadata.userInput = Fround(2)
    /\ bufferMapper.metadata.physicsConstants # buffers.metadata.physicsConstants
    /\ bufferMapper.metadata.particle_i_c # buffers.metadata.particle_i_c

\* A snapshot holds more particles or beams than the mapper has room for.
Exceeds(bm, buf) ==
    \/ SnapshotParticleCount(buf) > bm.maxParticles
    \/ SnapshotBeamCount(buf) > bm.maxBeams

\* C5: a step that answers SNAPSHOT_LOAD with failure leaves the host buffers
\* (mapping, particle, beam, metadata with counts and constants), the scene store
\* and the device buffers exactly as they were, and a snapshot over capacity is
\* never taken on for writing (so its load is the one answered with failure).
C5_RejectedLoadChangesNothing ==
    [][/\ (posted'.type = "SNAPSHOT_LOAD" /\ posted'.data = FALSE) =>
             /\ bufferMapper' = bufferMapper
             /\ buffers' = buffers
             /\ staging' = staging
       /\ \A t \in Tasks :
             tasks'[t].type = "SNAPSHOT_LOAD" => ~Exceeds(bufferMapper', tasks'[t].data)]_vars

C5_Witness ==
    /\ posted.type = "SNAPSHOT_LOAD"
    /\ posted.data = FALSE
    /\ buffers.metadata.particle_i_c = 1
    /\ lock # 0

\* The device holds the snapshot's state: counts, constants, mapping, particle
\* and beam records, with the force scratch, the delete bitmap and particlesB clear.
DeviceHolds(b, buf) ==
    LET pCount == SnapshotParticleCount(buf)
        bCount == SnapshotBeamCount(buf)
    IN /\ b.metadata.particle_i_c = pCount
       /\ b.metadata.beam_i_c = bCount
       /\ b.metadata.physicsConstants = buf.metadata
       /\ \A i \in 1..pCount :
             /\ b.mapping[i - 1] = buf.particleMapping[i]
             /\ b.particlesA[i - 1] = buf.particleData[i]
       /\ \A i \in 1..bCount :
             /\ b.mapping[b.metadata.max_particles + i - 1] = buf.beamMapping[i]
             /\ b.beams[i - 1] = buf.beamData[i]
       /\ \A i \in DOMAIN b.particleForces : b.particleForces[i] = 0
       /\ b.deleteMappings = {}
       /\ \A i \in DOMAIN b.particlesB : b.particlesB[i] = 0

\* C7: at the step that answers a SNAPSHOT_LOAD with success the device holds the
\* snapshot's state, whatever other handlers and frames are in progress.
C7_AnsweredLoadIsOnDevice ==
    [][\A t \in Tasks :
          (tasks[t].type = "SNAPSHOT_LOAD" /\ tasks[t].pc = "wb_done"
              /\ tasks'[t].type = "idle")
          => DeviceHolds(buffers', tasks[t].data)]_vars

\* C9: the commands of a frame are the input write, subticks update dispatches
\* with bind group A for even and B for odd i, one delete dispatch, the draw of
\* the particles, the draw of the beams and one submission, in this order; the
\* frame holds the lock from before the input write until after the submission.
C9_FrameCommandOrder ==
    /\ frameLoop \in {"drain", "done"} => lock = FrameHolder
    /\ frameLoop = "done" => encoder # <<>>
    /\ encoder # <<>> =>
          LET n == subticks.n
          IN /\ Len(encoder) = n + 5
             /\ encoder[1] = Command("writeUserInput", "metadata")
             /\ \A i \in 0..(n - 1) :
                   encoder[i + 2] =
                       Command("dispatchUpdate", IF i % 2 = 0 THEN "computeA" ELSE "computeB")
             /\ encoder[n + 2] = Command("dispatchDelete", "computeDelete")
             /\ encoder[n + 3] = Command("draw", "renderParticles")
             /\ encoder[n + 4] = Command("draw", "renderBeams")
             /\ encoder[n + 5] = Command("submit", "encoder")

C9_Witness ==
    /\ frameLoop = "done"
    /\ subticks.n = 4
    /\ Len(encoder) = 9
    /\ \E t \in Tasks : tasks[t].pc \in {"lb_acquire", "wb_acquire"}

\* ------------------------------------------------- the option values
\* Every kind of value the subticks option can carry.
InitOptions ==
    \E opt \in {Undefined, NaN} \cup {Half(n) : n \in (-1)..(2 * MaxSubticks)} :
        InitWorkerWith(opt)

SpecOptions == InitOptions /\ [][NextWorker]_vars

\* C10: the subticks field is an even number, and the last update dispatch of a
\* frame writes particlesA.
C10_SubticksEvenLastWritesA ==
    /\ subticks.k = "num"
    /\ subticks.n % 2 = 0
    /\ \A i \in 1..(Len(encoder) - 1) :
          (encoder[i].cmd = "dispatchUpdate" /\ encoder[i + 1].cmd # "dispatchUpdate")
              => particles_write(encoder[i].arg) = "particlesA"

\* ------------------------------------------------- buffer corruption
CorruptTargets == {"metadata", "mapping", "particlesA", "particlesB", "beams", "particleForces"}

\* corrupt(buf): queue.writeBuffer of a random u32 at a random word; here one
\* write of the u32 0 to one buffer: a word of the user input in the metadata,
\* word 0 of the mapping and of the force scratch, and a word that turns record 0
\* of the particle and beam buffers into the zero record.
Corrupted(b, target) ==
    CASE target = "metadata" -> [b EXCEPT !.metadata.userInput = 0]
      [] target = "mapping" -> [b EXCEPT !.mapping = StoreWord(@, 0, <<0, 0>>)]
      [] target = "particlesA" -> [b EXCEPT !.particlesA[0] = 0]
      [] target = "particlesB" -> [b EXCEPT !.particlesB[0] = 0]
      [] target = "beams" -> [b EXCEPT !.beams[0] = ZeroBeam]
      [] target = "particleForces" -> [b EXCEPT !.particleForces[0] = 0]

\* onMessage, CORRUPT_BUFFERS: corruptBuffers writes to the queue at once.
CorruptBuffers(target) ==
    /\ buffers' = Corrupted(buffers, target)
    /\ posted' = NoMessage
    /\ UNCHANGED <<bufferMapper, tasks, lock, staging, frameLoop, encoder, userInput,
                   subticks, engine, host, kvars, svars>>

InitCorrupt == InitWorkerWith(Half(4))

NextCorrupt ==
    \/ NextWorker
    \/ \E target \in CorruptTargets : CorruptBuffers(target)

SpecCorrupt == InitCorrupt /\ [][NextCorrupt]_vars

\* The step is one of the holder of the lock.
HolderStep ==
    \/ lock \in Tasks /\ tasks'[lock].pc # tasks[lock].pc
    \/ lock = FrameHolder /\ frameLoop' # frameLoop

\* C8: every step that writes a device buffer or submits a copy of one is a step
\* of the operation that holds the lock.
C8_DeviceWritesUnderLock ==
    [][(buffers' # buffers \/ staging' # staging) => (lock # 0 /\ HolderStep)]_vars

\* ------------------------------------------------- requests in succession
\* The handlers run one after the other, each to its answer before the next
\* request or frame begins (the host awaits every answer).
\* loadBuffers as a whole: the device is copied to the staging buffers and these
\* over the host buffers.
loadBuffers(bm, b) ==
    ReadBack(bm, [metadata |-> b.metadata, particles |-> b.particlesA,
                  beams |-> b.beams, mapping |-> b.mapping])

\* The constants the host sends one after the other: doubles that are f32 values
\* and doubles that are not.
ConstantsApplied == {1, 4, 5}

Handled(op, data) ==
    /\ lastOp' = [op |-> op, data |-> data,
                  repeated |-> lastOp.op = op /\ lastOp.data = data,
                  before |-> <<bufferMapper, buffers>>]
    /\ UNCHANGED <<snapshot, tasks, lock, staging, frameLoop, subticks, engine, host, kvars>>

\* onMessage, PHYSICS_CONSTANTS: loadBuffers, setPhysicsConstants, writeBuffers,
\* and the answer with getPhysicsConstants.
HandlePhysicsConstants(c) ==
    LET bm == [loadBuffers(bufferMapper, buffers)
                  EXCEPT !.metadata = setPhysicsConstants(@, c)]
    IN /\ bufferMapper' = bm
       /\ buffers' = Written(buffers, bm)
       /\ posted' = Message("PHYSICS_CONSTANTS", getPhysicsConstants(bm.metadata))
       /\ Handled("PHYSICS_CONSTANTS", c)
       /\ UNCHANGED <<encoder, userInput>>

\* onMessage, SNAPSHOT_LOAD.
HandleSnapshotLoad(buffer) ==
    LET res == loadSnapshotbuffer(bufferMapper, buffer)
    IN /\ bufferMapper' = res.bm
       /\ buffers' = IF res.ok THEN Written(buffers, res.bm) ELSE buffers
       /\ posted' = Message("SNAPSHOT_LOAD", res.ok)
       /\ Handled("SNAPSHOT_LOAD", buffer)
       /\ UNCHANGED <<encoder, userInput>>

\* onMessage, INPUT.
HandleInput(u) ==
    /\ userInput' = u
    /\ posted' = Message("INPUT", 0)
    /\ Handled("INPUT", u)
    /\ UNCHANGED <<buffers, bufferMapper, encoder>>

\* One frame from the animation-frame callback to the posted frame rate.
HandleFrame ==
    LET md == setUserInput(bufferMapper.metadata, userInput)
        cmds == RecordFrame(subticks)
    IN /\ bufferMapper' = [bufferMapper EXCEPT !.metadata = md]
       /\ encoder' = cmds
       /\ buffers' = Execute(writeUserInput(buffers, md), cmds, 1, Len(cmds))
       /\ posted' = Message("FRAMERATE", 0)
       /\ Handled("frame", 0)
       /\ UNCHANGED userInput

InitSuccession ==
    /\ Constructed(Half(4))
    /\ snapshot = <<>>
    /\ lastOp = [op |-> "new", data |-> 0, repeated |-> FALSE, before |-> <<>>]

NextSuccession ==
    \/ \E c \in ConstantsApplied : HandlePhysicsConstants(c)
    \/ \E buffer \in SnapshotsSent : HandleSnapshotLoad(buffer)
    \/ \E u \in InputsSent : HandleInput(u)
    \/ HandleFrame

SpecSuccession == InitSuccession /\ [][NextSuccession]_vars

\* C20 as stated: a PHYSICS_CONSTANTS request that follows an answered request
\* with the same constants c leaves the host buffers, the store and the device
\* buffers as the first left them, and every such request is answered with c.
C20_ApplyTwiceEchoesSent ==
    lastOp.op = "PHYSICS_CONSTANTS" =>
        /\ lastOp.repeated => <<bufferMapper, buffers>> = lastOp.before
        /\ posted = Message("PHYSICS_CONSTANTS", lastOp.data)

\* C20, amended: the same, with every such request answered with c rounded to f32.
C20_ApplyTwiceIsApplyOnce ==
    lastOp.op = "PHYSICS_CONSTANTS" =>
        /\ lastOp.repeated => <<bufferMapper, buffers>> = lastOp.before
        /\ posted = Message("PHYSICS_CONSTANTS", Fround(lastOp.data))

\* The constants were applied a second time to a device that holds a loaded
\* particle and has run a frame.
C20_Witness ==
    /\ lastOp.op = "PHYSICS_CONSTANTS"
    /\ lastOp.repeated
    /\ lastOp.data = 5
    /\ buffers.metadata.particle_i_c = 1
    /\ encoder # <<>>
    /\ buffers.particlesA[0] # 2

\* ------------------------------------------- compute_update, step by step
\* The update kernel one invocation at a time.  The scenes lie on a line parallel
\* to the x axis and nothing moves across it (gravity, applied force and all
\* velocities have no y component, friction is 0), so a vec2 is given by its x
\* component and every y statement of the shader computes 0.  An f32 is an
\* integer or QNaN; the scenes keep every halving exact.  Time is measured in
\* sub-ticks, which makes time_step 1.  Of particle_forces the x accumulators
\* (index * 2) are followed; the y accumulators only ever hold 0.
bounds_size == 1000
time_step == 1

\* The f32 NaN (exponent all ones, quiet bit set), and arithmetic that propagates it.
QNaN == 255 * 2^23 + 2^22
IsNaN(x) == x = QNaN
FAdd(x, y) == IF IsNaN(x) \/ IsNaN(y) THEN QNaN ELSE x + y
FSub(x, y) == IF IsNaN(x) \/ IsNaN(y) THEN QNaN ELSE x - y
FMul(x, y) == IF IsNaN(x) \/ IsNaN(y) THEN QNaN ELSE x * y
\* A comparison with NaN is false.
FLess(x, y) == ~IsNaN(x) /\ ~IsNaN(y) /\ x < y
abs(x) == IF IsNaN(x) THEN QNaN ELSE IF x < 0 THEN -x ELSE x
sign(x) == IF IsNaN(x) THEN QNaN ELSE IF x > 0 THEN 1 ELSE IF x < 0 THEN -1 ELSE 0

\* clamp(e, low, high): min(max(e, low), high); of a NaN the result is
\* indeterminate (either bound or the NaN, by the way min and max are built).
clamp(e, low, high) ==
    IF IsNaN(e) THEN {low, high, QNaN} ELSE {Min(Max(e, low), high)}

\* One iteration of the collision loop: other against the const copy.
Collide(particle, const_particle, other, index, other_index, md) ==
    LET d == FSub(other.p, const_particle.p)
        dist == abs(d)
        elasticity_coeff == (md.elasticity + 1) \div 2
    IN IF dist = 0                  \* particle.p.y += sign(f32(index) - f32(other_index))
       THEN IF md.axis = "y"
            THEN [particle EXCEPT !.p = FAdd(@, sign(index - other_index))]
            ELSE particle
       ELSE IF FLess(dist, particle_radius * 2)
       THEN LET normal == sign(d)
                inv_rel_velocity == FSub(const_particle.v, other.v)
                impulse_normal ==
                    FMul(elasticity_coeff, FMul(inv_rel_velocity, normal))
                clip_shift == (normal * (particle_radius * 2 - dist)) \div 2
            IN [particle EXCEPT !.v = FSub(@, FMul(impulse_normal, normal)),
                                !.p = FSub(@, clip_shift)]
       ELSE particle

\* for (o_map_index = 0; o_map_index < particle_i_c; o_map_index++), skipping
\* o_map_index == particle_mapping_index.
RECURSIVE CollideAll(_, _, _, _, _, _)
CollideAll(particle, const_particle, b, group, particle_mapping_index, o_map_index) ==
    IF o_map_index >= b.metadata.particle_i_c THEN particle
    ELSE LET other == b[particles_read(group)][get_mapped_index(b.mapping, o_map_index)]
         IN CollideAll(IF o_map_index = particle_mapping_index THEN particle
                       ELSE Collide(particle, const_particle, other,
                                    get_mapped_index(b.mapping, particle_mapping_index),
                                    get_mapped_index(b.mapping, o_map_index),
                                    b.metadata),
                       const_particle, b, group, particle_mapping_index,
                       o_map_index + 1)

\* Gravity, drag (drag_exp is 1 or 2) and the user input forces.
ApplyForces(particle, md) ==
    LET g == [particle EXCEPT !.a = FAdd(@, md.gravity)]
        pow == IF md.drag_exp = 1 THEN abs(g.v) ELSE FMul(g.v, g.v)
        d == IF FLess(0, abs(g.v))
             THEN [g EXCEPT !.a = FSub(@, FMul(md.drag_coeff, FMul(pow, sign(g.v))))]
             ELSE g
        u == [d EXCEPT !.a = FAdd(@, FMul(md.applied_force, md.user_strength))]
    IN IF md.mouse_active > 0
          /\ FLess(abs(FSub(md.mouse_pos, u.p)), particle_radius * 10)
       THEN [u EXCEPT !.a = FSub(FAdd(@, FMul(FSub(md.mouse_vel, u.v),
                                              md.user_strength)), md.gravity)]
       ELSE u

\* particle.a.x += f32(exchanged) / particle_force_scale; v += a * time_step;
\* p += v * time_step; a = 0.
Advance(particle, force) ==
    LET a == FAdd(particle.a, force)
        v == FAdd(particle.v, FMul(a, time_step))
    IN [particle EXCEPT !.a = 0, !.v = v, !.p = FAdd(particle.p, FMul(v, time_step))]

\* Border collision: the velocity is reflected when the position was clamped
\* (p != clamped_pos, which is true of a NaN), and the position becomes clamped_pos.
Border(particle, clamped_pos, md) ==
    [particle EXCEPT
        !.v = IF IsNaN(particle.p) \/ particle.p # clamped_pos
              THEN FMul(@, -md.border_elasticity) ELSE @,
        !.p = clamped_pos]

\* A yield that moves the target from where it was, by yield_strain * length.
YieldedFromTarget(beam, len) ==
    IF abs(len - beam.target_length) > beam.yield_strain * beam.length
    THEN beam.target_length
            + beam.yield_strain * beam.length * sign(len - beam.target_length)
    ELSE beam.target_length

\* if (abs(strain) > beam.yield_strain) { beam.target_length = len -
\* beam.yield_strain * beam.length * sign(strain); }, with strain times
\* beam.length (> 0) in the place of strain.
Yielded(beam, len) ==
    IF abs(len - beam.target_length) > beam.yield_strain * beam.length
    THEN len - beam.yield_strain * beam.length * sign(len - beam.target_length)
    ELSE beam.target_length

\* The beam simulation of one beam.  len is length(diff) and normal the x
\* component of normalize(diff), 0 for the diff (0, -1.0e-10) that replaces a
\* zero one.  abs(strain) > yield_strain is written without the division by
\* beam.length (> 0); stress and strain, which only the renderer reads, are left out.
BeamStep(beam, particle_a, particle_b) ==
    LET diff == particle_b.p - particle_a.p
        len == abs(diff)
        normal == sign(diff)
        force_mag == (beam.target_length - len) * beam.spring
                        + (beam.last_length - len) * beam.damp
        strain == len - beam.target_length
    IN [force |-> force_mag * normal,
        broken |-> abs(len - beam.length) > beam.length * beam.strain_break_limit,
        beam |-> [beam EXCEPT !.target_length = Yielded(beam, len),
                              !.last_length = len]]

\* i32(force * particle_force_scale), in units of 1 / particle_force_scale: the
\* conversion saturates at the ends of the i32 range.
Fixed(force) == Max(-(2^15), Min(2^15 - 1, force))

\* An accumulator of particle_forces is kept as the set of contributions it holds;
\* the i32 the shader reads is their sum modulo 2^32 (2^16 in force units).
RECURSIVE SumOf(_)
SumOf(S) == IF S = {} THEN 0
            ELSE LET c == CHOOSE x \in S : TRUE IN c.value + SumOf(S \ {c})
AccumulatorValue(S) == ((SumOf(S) + 2^15) % 2^16) - 2^15

atomicAdd(forces, k, c) == [forces EXCEPT ![k] = @ \cup {c}]

\* atomicExchange(&particle_forces[k], 0): the old content and the array after it.
atomicExchangeKept(forces, k) == [old |-> forces[k], forces |-> forces]
atomicExchange(forces, k) == [old |-> forces[k], forces |-> [forces EXCEPT ![k] = {}]]

\* The bits of word w of the delete bitmap.
WordBits(bits, w) == {i \in bits : i \div 32 = w}

\* dispatchWorkgroups(numWorkgroups): Math.ceil(Math.max(maxParticles, maxBeams) / 64).
numWorkgroups == Ceil(Max(MaxParticles, MaxBeams), WorkgroupSize)
beam_mapping_index(gid) == numWorkgroups * 64 - gid - 1

\* The invocations with beam or particle work; the others return at once.
UpdateLanes(md) ==
    {gid \in 0..(numWorkgroups * WorkgroupSize - 1) :
        beam_mapping_index(gid) < md.beam_i_c \/ gid < md.particle_i_c}

\* The next command of the submitted frame (frames counts the executed ones).
NextCommand == IF frames < Len(encoder) THEN encoder[frames + 1] ELSE Command("none", "")

AfterBeam(gid) == IF gid < buffers.metadata.particle_i_c THEN "particle" ELSE "done"

\* The queue starts the next update dispatch.
UpdateBegin ==
    /\ kpc = "idle"
    /\ NextCommand.cmd = "dispatchUpdate"
    /\ kpc' = "update"
    /\ lanes' = [gid \in UpdateLanes(buffers.metadata) |->
                    [pc |-> IF beam_mapping_index(gid) < buffers.metadata.beam_i_c
                            THEN "beam" ELSE AfterBeam(gid)]]
    /\ UNCHANGED <<buffers, delete_index, frames, pre, bufferMapper, svars, wvars>>

\* Beam work up to the test of the break limit; when it holds, the load of the
\* bitmap word that mark_beam_deleted's |= starts with.
BeamRead(gid) ==
    /\ kpc = "update"
    /\ gid \in DOMAIN lanes
    /\ lanes[gid].pc = "beam"
    /\ LET md == buffers.metadata
           id == beam_mapping_index(gid)
           index == get_mapped_index(buffers.mapping, md.max_particles + id)
           read == buffers[particles_read(NextCommand.arg)]
           beam == buffers.beams[index]
           r == BeamStep(beam, read[beam.particle_pair[1]], read[beam.particle_pair[2]])
       IN /\ lanes' = [lanes EXCEPT ![gid] =
                        [pc |-> IF r.broken THEN "mark" ELSE "addA",
                         index |-> index, beam |-> r.beam, force |-> r.force,
                         word |-> IF r.broken
                                  THEN WordBits(buffers.deleteMappings,
                                                (md.max_particles + id) \div 32)
                                  ELSE {}]]
          /\ pre' = [pre EXCEPT !.broken = @ \cup (IF r.broken THEN {id} ELSE {})]
    /\ UNCHANGED <<buffers, delete_index, kpc, frames, bufferMapper, svars, wvars>>

\* The store that ends mark_beam_deleted's |=: the loaded word with the bit set.
BeamMark(gid) ==
    /\ kpc = "update"
    /\ gid \in DOMAIN lanes
    /\ lanes[gid].pc = "mark"
    /\ LET md == buffers.metadata
           id == beam_mapping_index(gid)
           w == (md.max_particles + id) \div 32
       IN buffers' = [buffers EXCEPT !.deleteMappings =
                        (@ \ WordBits(@, w))
                            \cup mark_beam_deleted(lanes[gid].word, md, id)]
    /\ lanes' = [lanes EXCEPT ![gid].pc = "addA"]
    /\ UNCHANGED <<delete_index, kpc, frames, pre, bufferMapper, svars, wvars>>

\* beams[index] = beam and the atomicAdds on the x accumulators of the two end
\* points, one per step.
BeamAdd(gid) ==
    /\ kpc = "update"
    /\ gid \in DOMAIN lanes
    /\ lanes[gid].pc \in {"addA", "addB"}
    /\ LET l == lanes[gid]
           index_a == l.beam.particle_pair[1]
           index_b == l.beam.particle_pair[2]
           k == IF l.pc = "addA" THEN index_a * 2 ELSE index_b * 2
           c == [beam |-> beam_mapping_index(gid), tick |-> frames, k |-> k,
                 value |-> Fixed(IF l.pc = "addA" THEN -l.force ELSE l.force)]
       IN /\ buffers' = [buffers EXCEPT
                            !.beams[l.index] = l.beam,
                            !.particleForces = atomicAdd(@, k, c)]
          /\ pre' = [pre EXCEPT !.added = @ \cup {c}]
          /\ lanes' = [lanes EXCEPT ![gid] =
                          IF l.pc = "addA" THEN [l EXCEPT !.pc = "addB"]
                          ELSE [pc |-> AfterBeam(gid)]]
    /\ UNCHANGED <<delete_index, kpc, frames, bufferMapper, svars, wvars>>

\* History of the exchanges: what was taken, and what was taken a second time.
Taken(h, old) == [h EXCEPT !.twice = @ \cup (old \cap h.taken), !.taken = @ \cup old]

\* Particle work.  Its reads are of buffers no invocation of the dispatch writes
\* and its write is to a record no invocation reads, so it is one step, taken at
\* its atomicExchange; the clamp of a NaN position picks any of its outcomes.
ParticleStep(gid) ==
    /\ kpc = "update"
    /\ gid \in DOMAIN lanes
    /\ lanes[gid].pc = "particle"
    /\ LET group == NextCommand.arg
           index == get_mapped_index(buffers.mapping, gid)
           particle == buffers[particles_read(group)][index]
           collided == CollideAll(particle, particle, buffers, group, gid, 0)
           x == atomicExchange(buffers.particleForces, index * 2)
           moved == Advance(ApplyForces(collided, buffers.metadata),
                            AccumulatorValue(x.old))
       IN /\ \E clamped_pos \in clamp(moved.p, particle_radius,
                                      bounds_size - particle_radius) :
                buffers' = [buffers EXCEPT
                    !.particleForces = x.forces,
                    ![particles_write(group)][index] =
                        Border(moved, clamped_pos, buffers.metadata)]
          /\ pre' = Taken(pre, x.old)
    /\ lanes' = [lanes EXCEPT ![gid] = [pc |-> "done"]]
    /\ UNCHANGED <<delete_index, kpc, frames, bufferMapper, svars, wvars>>

\* Every invocation has returned: the dispatch is complete.
UpdateEnd ==
    /\ kpc = "update"
    /\ \A gid \in DOMAIN lanes : lanes[gid].pc = "done"
    /\ kpc' = "idle"
    /\ lanes' = <<>>
    /\ frames' = frames + 1
    /\ UNCHANGED <<buffers, delete_index, pre, bufferMapper, svars, wvars>>

\* ------------------------------------------------------ update scenes
ParticleAt(p, v) == [p |-> p, v |-> v, a |-> 0]
NoParticle == ParticleAt(0, 0)

\* A beam of rest length len between slots a and b that is len + stretch long.
BeamBetween(a, b, len, stretch, limit) ==
    [particle_pair |-> <<a, b>>, length |-> len, target_length |-> len,
     last_length |-> len + stretch, spring |-> 1, damp |-> 1, yield_strain |-> 1,
     strain_break_limit |-> limit]
NoBeam == BeamBetween(0, 0, 0, 0, 0)

\* The physics constants and the user input the metadata buffer holds, and the
\* axis the scene lies along: on a line parallel to the y axis the numbers are
\* the y components, and the x statements compute 0.
Physics(gravity, drag_coeff, applied_force) ==
    [gravity |-> gravity, border_elasticity |-> 1, elasticity |-> 1, friction |-> 0,
     drag_coeff |-> drag_coeff, drag_exp |-> 1, user_strength |-> 1,
     mouse_active |-> 0, mouse_pos |-> 0, mouse_vel |-> 0,
     applied_force |-> applied_force, axis |-> "x"]

\* Device state after a scene was written: slot k under mapping index k.
UpdateScene(particles, beams, physics) ==
    [metadata |-> [NewMetadata EXCEPT !.particle_i_c = Len(particles),
                                      !.beam_i_c = Len(beams)] @@ physics,
     particlesA |-> [i \in 0..(MaxParticles - 1) |->
                        IF i < Len(particles) THEN particles[i + 1] ELSE NoParticle],
     particlesB |-> [i \in 0..(MaxParticles - 1) |-> NoParticle],
     beams |-> [i \in 0..(MaxBeams - 1) |->
                  IF i < Len(beams) THEN beams[i + 1] ELSE NoBeam],
     mapping |-> [i \in 0..(MapLen - 1) |->
                    IF i < Len(particles) THEN i
                    ELSE IF i >= MaxParticles /\ i < MaxParticles + Len(beams)
                         THEN i - MaxParticles ELSE 0],
     particleForces |-> [i \in 0..(2 * MaxParticles - 1) |-> {}],
     deleteMappings |-> {}]

\* Three particles at rest in a row, joined by bc stretched beams that break at
\* once (limit 0) or hold (limit 1).
ChainScenes ==
    {UpdateScene(<<ParticleAt(100, 0), ParticleAt(200, 0), ParticleAt(300, 0)>>,
                 SubSeq(<<BeamBetween(0, 1, 90, 10, limit),
                          BeamBetween(1, 2, 90, 10, limit)>>, 1, bc),
                 Physics(0, 0, 0)) : bc \in 1..2, limit \in 0..1}

\* Two particles placed symmetrically about the middle, overlapping by less than
\* a diameter and moving head-on at speed u; no beams, nothing else near.
AppliedForces == {0, 1, QNaN}
PairScenes ==
    {UpdateScene(<<ParticleAt(500 - d, u), ParticleAt(500 + d, -u)>>, <<>>,
                 Physics(g, drag, f)) :
        d \in {4, 8}, u \in {4}, g \in {0, 1}, drag \in {0, 1}, f \in AppliedForces}

\* Two particles at rest, d apart, joined by a beam of rest length 30 and target
\* length t that breaks at once: at rest (30, 30), stretched or compressed
\* beyond the yield strain, or within it.
BeamScenes ==
    {UpdateScene(<<ParticleAt(100, 0), ParticleAt(100 + c[2], 0)>>,
                 <<[BeamBetween(0, 1, 30, c[2] - 30, 0) EXCEPT !.target_length = c[1]]>>,
                 Physics(0, 0, 0)) :
        c \in {<<30, 30>>, <<30, 50>>, <<30, 70>>, <<30, 90>>, <<100, 50>>}}

\* Two particles that move into the borders.
BorderScenes ==
    {UpdateScene(<<ParticleAt(12, -6), ParticleAt(988, 6)>>, <<>>, Physics(g, 0, 0)) :
        g \in {0, 1}}

\* Two particles at one position with one velocity, on a vertical line: in mid
\* field, resting on the floor and under the ceiling.
CoincidentScenes ==
    {UpdateScene(<<ParticleAt(p, v), ParticleAt(p, v)>>, <<>>,
                 [Physics(g, 0, 0) EXCEPT !.axis = "y"]) :
        p \in {particle_radius, 500, bounds_size - particle_radius},
        v \in {-4, 0, 4}, g \in {-1, 0}}

InitUpdate ==
    /\ buffers \in ChainScenes \cup PairScenes \cup BorderScenes \cup BeamScenes
                    \cup CoincidentScenes
    /\ delete_index = <<0, 0>>
    /\ lanes = <<>>
    /\ kpc = "idle"
    /\ frames = 1
    /\ pre = [start |-> buffers, broken |-> {}, added |-> {}, taken |-> {}, twice |-> {}]
    /\ bufferMapper = <<>>
    /\ NoStore
    /\ tasks = <<>>
    /\ lock = FrameHolder
    /\ staging = <<>>
    /\ frameLoop = "done"
    /\ subticks = Subticks(Half(4))
    /\ encoder = RecordFrame(subticks)
    /\ userInput = 0
    /\ posted = NoMessage
    /\ engine = Engine("ready", particle_radius)
    /\ host = Host

NextUpdate ==
    \/ UpdateBegin
    \/ \E gid \in DOMAIN lanes : BeamRead(gid)
    \/ \E gid \in DOMAIN lanes : BeamMark(gid)
    \/ \E gid \in DOMAIN lanes : BeamAdd(gid)
    \/ \E gid \in DOMAIN lanes : ParticleStep(gid)
    \/ UpdateEnd

SpecUpdate == InitUpdate /\ [][NextUpdate]_vars

\* The buffer the last completed update dispatch wrote.
LastWritten == buffers[particles_write(encoder[frames].arg)]

UpdateDone == kpc = "idle" /\ frames > 1 /\ encoder[frames].cmd = "dispatchUpdate"

InBounds(x) ==
    ~IsNaN(x) /\ particle_radius <= x /\ x <= bounds_size - particle_radius

\* C11: after every update sub-tick the position of every live particle lies in
\* [particle_radius, bounds_size - particle_radius], whatever forces, collisions
\* and user input were applied.
C11_PositionsInBounds ==
    UpdateDone =>
        \A index \in LiveSlots(buffers, 0, buffers.metadata.particle_i_c) :
            InBounds(LastWritten[index].p)

\* C12: a beam whose break condition held in an update sub-tick of the frame is
\* still in the live mapping while the update dispatches run (nothing removes it
\* before the delete pass), and its delete bit is set when the delete pass starts.
C12_MarksReachDeletePass ==
    /\ buffers.mapping = pre.start.mapping
    /\ buffers.metadata.beam_i_c = pre.start.metadata.beam_i_c
    /\ (kpc = "idle" /\ NextCommand.cmd = "dispatchDelete") =>
          \A id \in pre.broken :
              (buffers.metadata.max_particles + id) \in buffers.deleteMappings

\* C13: at the start of every update sub-tick the force accumulator of every live
\* particle is zero.
C13_AccumulatorsZeroAtStart ==
    (kpc = "idle" /\ NextCommand.cmd = "dispatchUpdate") =>
        \A index \in LiveSlots(buffers, 0, buffers.metadata.particle_i_c) :
            AccumulatorValue(buffers.particleForces[index * 2]) = 0

\* The end point slots of the beam at mapping index id.
Ends(b, id) ==
    {b.beams[get_mapped_index(b.mapping, b.metadata.max_particles + id)].particle_pair[e] :
        e \in 1..2}

\* C14: in every execution order, a contribution a beam has added is either still
\* in the accumulator of the end point it was added for or was taken by that
\* particle's exchange, never both and never twice; one added in a sub-tick has
\* been taken when the following sub-tick is complete.
C14_ContributionsTakenOnce ==
    /\ pre.twice = {}
    /\ pre.taken \subseteq pre.added
    /\ \A k \in DOMAIN buffers.particleForces : buffers.particleForces[k] \subseteq pre.added
    /\ \A c \in pre.added :
          /\ (c \in buffers.particleForces[c.k]) # (c \in pre.taken)
          /\ c.k \in {2 * index : index \in Ends(buffers, c.beam)}
          /\ (kpc = "idle" /\ c.tick < frames - 1) => c \in pre.taken

\* Both dispatches are complete: contributions of the first sub-tick were taken,
\* among them those of two beams to the same particle, and one of the second
\* sub-tick, added after its particle's exchange, is still in its accumulator.
C14_Witness ==
    /\ kpc = "idle"
    /\ NextCommand.cmd = "dispatchDelete"
    /\ \E c \in pre.taken : c.tick = 1 /\ c.value # 0
    /\ \E c \in pre.added : c.tick = 2 /\ c \in buffers.particleForces[c.k]
                               /\ \E d \in pre.taken : d.k = c.k /\ d.tick = 1
    /\ \E c, d \in pre.taken : c.k = d.k /\ c.beam # d.beam /\ c.tick = d.tick

\* The scene started as a symmetric head-on pair, and the two particles as the
\* last completed dispatch wrote them mirror each other about the same mid-point.
SymmetricPair == pre.start \in PairScenes
Mirrored ==
    /\ FAdd(LastWritten[0].v, LastWritten[1].v) = 0
    /\ FAdd(LastWritten[0].p, LastWritten[1].p)
          = pre.start.particlesA[0].p + pre.start.particlesA[1].p

\* C15 as stated: an isolated symmetric pair moving head-on has, after a tick and
\* in every order of the two invocations, equal and opposite velocities and an
\* unmoved mid-point.
C15_PairStaysMirrored == (SymmetricPair /\ UpdateDone) => Mirrored

\* C15, amended: the same when gravity is zero and no user force is applied.
C15_UnforcedPairStaysMirrored ==
    (/\ SymmetricPair
     /\ UpdateDone
     /\ buffers.metadata.gravity = 0
     /\ FMul(buffers.metadata.applied_force, buffers.metadata.user_strength) = 0
     /\ buffers.metadata.mouse_active = 0) => Mirrored

\* An unforced pair has collided in the first sub-tick: both velocities are
\* reversed and the particles were pushed apart.
C15_Witness ==
    /\ SymmetricPair
    /\ UpdateDone
    /\ frames = 2
    /\ buffers.metadata.gravity = 0
    /\ buffers.metadata.applied_force = 0
    /\ buffers.metadata.drag_coeff = 0
    /\ LastWritten[0].v = -pre.start.particlesA[0].v
    /\ LastWritten[0].v < 0
    /\ LastWritten[0].p < pre.start.particlesA[0].p

\* The invocations that have computed their beam and not yet stored it: the
\* lane holds the new record, beams[index] the one the pass started from.
BeamComputed == {gid \in DOMAIN lanes : lanes[gid].pc \in {"mark", "addA"}}
OldBeam(gid) == buffers.beams[lanes[gid].index]
CurrentLength(gid) ==
    LET read == buffers[particles_read(NextCommand.arg)]
    IN abs(read[OldBeam(gid).particle_pair[2]].p - read[OldBeam(gid).particle_pair[1]].p)
OverYield(gid) ==
    abs(CurrentLength(gid) - OldBeam(gid).target_length)
        > OldBeam(gid).yield_strain * OldBeam(gid).length

\* C27 as stated: in a beam pass where |strain| exceeds yield_strain the new
\* target length is the old one plus sign(strain) x yield_strain x original
\* length, and otherwise the target length is unchanged.
C27_TargetMovesByYield ==
    kpc = "update" =>
        \A gid \in BeamComputed :
            lanes[gid].beam.target_length =
                IF OverYield(gid)
                THEN OldBeam(gid).target_length
                        + sign(CurrentLength(gid) - OldBeam(gid).target_length)
                            * OldBeam(gid).yield_strain * OldBeam(gid).length
                ELSE OldBeam(gid).target_length

\* C27, amended: where |strain| exceeds yield_strain the new target length is the
\* current length minus sign(strain) x yield_strain x original length, which
\* leaves a strain of exactly yield_strain; otherwise it is unchanged.
C27_TargetWithinYieldOfLength ==
    kpc = "update" =>
        \A gid \in BeamComputed :
            /\ lanes[gid].beam.target_length =
                  IF OverYield(gid)
                  THEN CurrentLength(gid)
                          - sign(CurrentLength(gid) - OldBeam(gid).target_length)
                              * OldBeam(gid).yield_strain * OldBeam(gid).length
                  ELSE OldBeam(gid).target_length
            /\ OverYield(gid) =>
                  abs(CurrentLength(gid) - lanes[gid].beam.target_length)
                      = OldBeam(gid).yield_strain * OldBeam(gid).length

\* A compressed beam (50 long, target 100, rest length 30) has yielded to the
\* target length 80.
C27_Witness ==
    /\ kpc = "update"
    /\ \E gid \in BeamComputed :
          /\ OverYield(gid)
          /\ CurrentLength(gid) = 50
          /\ OldBeam(gid).target_length = 100
          /\ lanes[gid].beam.target_length = 80

\* C28: after the first update sub-tick every live beam with strain_break_limit
\* = 0 is marked for deletion, whatever its length (the delete pass removes the
\* marked beams only).
C28_ZeroLimitBeamsMarked ==
    (kpc = "idle" /\ frames >= 2) =>
        \A id \in 0..(buffers.metadata.beam_i_c - 1) :
            buffers.beams[get_mapped_index(buffers.mapping,
                                           buffers.metadata.max_particles + id)]
                    .strain_break_limit = 0
                => (buffers.metadata.max_particles + id) \in buffers.deleteMappings

\* ------------------------------------------------- construction and shutdown
\* The worker from its construction to destroy(), with the host engine that
\* owns it.  Nothing of a terminated worker runs.  The tab stays visible, so
\* every turn of startDraw asks for an animation frame.
Alive == host.worker = "running"

\* The constructor's option handling: opts.particleRadius is stored as it is.
ParticleRadius(opt) == IF opt.k = "undefined" THEN particle_radius ELSE opt.n

\* frame: await this.device and the promises built on it, then lock.acquire().
\* A device promise that does not settle keeps the frame waiting.
FrameStart ==
    /\ Alive
    /\ engine.device # "never"
    /\ FrameAcquire

\* frame from the input write to onSubmittedWorkDone.  On a destroyed device
\* the calls are accepted and do nothing.
FrameRun ==
    /\ Alive
    /\ IF engine.device = "ready"
       THEN FrameSubmit
       ELSE /\ frameLoop = "drain"
            /\ frameLoop' = "done"
            /\ encoder' = RecordFrame(subticks)
            /\ posted' = NoMessage
            /\ UNCHANGED <<buffers, bufferMapper, tasks, lock, staging, userInput,
                           subticks, engine, host, kvars, svars>>

FrameEnd == Alive /\ FrameDone

\* An exception inside frame() after lock.acquire(): frame has no try block, so
\* lock.release() is not reached and the callback's promise rejects before
\* resolve(), which leaves startDraw at its await.
FrameThrows ==
    /\ Alive
    /\ frameLoop \in {"drain", "done"}
    /\ frameLoop' = "failed"
    /\ posted' = NoMessage
    /\ UNCHANGED <<buffers, bufferMapper, tasks, lock, staging, encoder, userInput,
                   subticks, engine, host, kvars, svars>>

\* A message reaches the worker: onMessageWrapper runs while it is subscribed.
Request(u) ==
    /\ Alive
    /\ engine.listening
    /\ ReceiveInput(u)

\* A request that needs the lock (GET_PHYSICS_CONSTANTS: loadBuffers).
RequestConstants(t) ==
    /\ Alive
    /\ engine.listening
    /\ engine.device # "never"
    /\ ReceiveGetPhysicsConstants(t)

RequestStep(t) ==
    /\ Alive
    /\ LoadBuffersAcquire(t) \/ LoadBuffersCopy(t) \/ LoadBuffersMapped(t)

\* destroy() up to its await: this.running = false.
destroyCalled(e) == [e EXCEPT !.running = FALSE, !.destroying = @ + 1]

\* The host's destroy(): running = false, DESTROY posted, listeners removed.
HostDestroy ==
    /\ host.running
    /\ host' = [host EXCEPT !.running = FALSE, !.sent = Alive, !.listeners = FALSE]
    /\ UNCHANGED <<buffers, bufferMapper, engine, tasks, lock, staging, frameLoop,
                   encoder, userInput, subticks, posted, kvars, svars>>

\* onMessage, DESTROY.
ReceiveDestroy ==
    /\ Alive
    /\ host.sent
    /\ host' = [host EXCEPT !.sent = FALSE]
    /\ engine' = IF engine.listening THEN destroyCalled(engine) ELSE engine
    /\ UNCHANGED <<buffers, bufferMapper, tasks, lock, staging, frameLoop, encoder,
                   userInput, subticks, posted, kvars, svars>>

\* device.lost resolves by itself: the callback of line 481 calls destroy().
DeviceLost ==
    /\ Alive
    /\ engine.device = "ready"
    /\ engine' = destroyCalled([engine EXCEPT !.device = "lost"])
    /\ UNCHANGED <<buffers, bufferMapper, tasks, lock, staging, frameLoop, encoder,
                   userInput, subticks, posted, host, kvars, svars>>

\* destroy() after await this.device: device.destroy(), removeEventListener,
\* postMessage(DESTROY).  Destroying a device that was not lost resolves
\* device.lost, and the callback of line 481 calls destroy() once more.
destroyKeepsListener(e) ==
    [e EXCEPT !.device = "destroyed",
              !.destroying = IF e.device = "ready" THEN @ ELSE @ - 1]
destroyResumed(e) ==
    [e EXCEPT !.device = "destroyed", !.listening = FALSE,
              !.destroying = IF e.device = "ready" THEN @ ELSE @ - 1]

DestroyResume ==
    /\ Alive
    /\ engine.destroying > 0
    /\ engine.device # "never"
    /\ engine' = destroyResumed(engine)
    /\ posted' = Message("DESTROY", 0)
    /\ host' = [host EXCEPT !.received = TRUE]
    /\ UNCHANGED <<buffers, bufferMapper, tasks, lock, staging, frameLoop, encoder,
                   userInput, subticks, kvars, svars>>

\* The host's onMessage, DESTROY: this.worker.terminate().
hostOnDestroy(h) == [h EXCEPT !.received = FALSE, !.worker = "terminated"]

HostOnMessage ==
    /\ host.received
    /\ host' = hostOnDestroy(host)
    /\ UNCHANGED <<buffers, bufferMapper, engine, tasks, lock, staging, frameLoop,
                   encoder, userInput, subticks, posted, kvars, svars>>

NextLifecycle ==
    \/ FrameStart
    \/ FrameRun
    \/ FrameEnd
    \/ FrameThrows
    \/ \E u \in InputsSent : Request(u)
    \/ \E t \in Tasks : RequestConstants(t)
    \/ \E t \in Tasks : RequestStep(t)
    \/ HostDestroy
    \/ ReceiveDestroy
    \/ DeviceLost
    \/ DestroyResume
    \/ HostOnMessage

\* A worker built with a device and the default radius.
InitLifecycle == InitWorkerWith(Half(4))

\* What the constructor leaves, for each kind of platform and of options.
\* Without navigator.gpu (or a webgpu context) it throws: no worker exists, and
\* the error event reaches the host's 'error' listener.  With an adapter of
\* null the throw is inside the async executor of the device promise, which
\* then never settles; the constructor itself returns.
Platforms == {"noGpu", "noAdapter", "adapter"}
RadiusOptions == {Undefined, Num(-1), Num(0), Num(particle_radius)}
SubticksOptions == {Undefined, Half(-2), Half(0), Half(4)}

ConstructedOn(platform, radius, opt) ==
    IF platform = "noGpu"
    THEN /\ tasks = [t \in Tasks |-> IdleTask]
         /\ lock = 0
         /\ staging = <<>>
         /\ frameLoop = "off"
         /\ encoder = <<>>
         /\ userInput = 0
         /\ subticks = Subticks(opt)
         /\ posted = NoMessage
         /\ buffers = <<>>
         /\ bufferMapper = <<>>
         /\ engine = [Engine("never", ParticleRadius(radius)) EXCEPT
                         !.running = FALSE, !.listening = FALSE]
         /\ host = [Host EXCEPT !.error = TRUE]
         /\ NoKernel
    ELSE /\ bufferMapper = BufferMapper(DeviceLimit)
         /\ buffers = createBuffers(BufferMapper(DeviceLimit))
         /\ tasks = [t \in Tasks |-> IdleTask]
         /\ lock = 0
         /\ staging = <<>>
         /\ frameLoop = "acquire"
         /\ encoder = <<>>
         /\ userInput = 0
         /\ subticks = Subticks(opt)
         /\ posted = NoMessage
         /\ engine = Engine(IF platform = "adapter" THEN "ready" ELSE "never",
                            ParticleRadius(radius))
         /\ host = Host
         /\ NoKernel

InitConstruct ==
    \E platform \in Platforms, radius \in RadiusOptions, opt \in SubticksOptions :
        ConstructedOn(platform, radius, opt) /\ NoStore

SpecConstruct == InitConstruct /\ [][NextLifecycle]_vars

\* The continuation of destroy() is a microtask on a resolved promise, and the
\* message and animation-frame tasks of a live worker are run by its event loop.
SpecLifecycle ==
    /\ InitLifecycle
    /\ [][NextLifecycle]_vars
    /\ WF_vars(DestroyResume)

\* C21: once destroy() has cleared the running flag, startDraw asks for no
\* further animation frame (the one already requested still runs), no request
\* is taken on once the listener is gone, and in the end the device is
\* destroyed, the listener removed and DESTROY on its way to the host.
C21_DestroyStopsTheWorker ==
    /\ [][(~engine.running /\ frameLoop # "acquire") => frameLoop' # "acquire"]_vars
    /\ [][~engine.listening =>
             /\ userInput' = userInput
             /\ \A t \in Tasks : tasks[t].type = "idle" => tasks'[t].type = "idle"]_vars
    /\ [](~engine.running =>
             <>(/\ engine.device = "destroyed"
                /\ ~engine.listening
                /\ host.received \/ host.worker = "terminated"))

\* destroy() has run to its end and the frame that was already requested has
\* finished: the loop is off, with DESTROY on its way to the host.
C21_Witness ==
    /\ ~engine.running
    /\ engine.device = "destroyed"
    /\ ~engine.listening
    /\ frameLoop = "off"
    /\ encoder # <<>>
    /\ host.received

\* C22: whenever the worker has been terminated, after a device loss as after
\* the host's destroy(), the host's running flag is cleared and its input
\* listeners are removed.
C22_LossEndsAsDestroy ==
    host.worker = "terminated" => (~host.running /\ ~host.listeners)

\* C23: a frame that threw after acquiring the lock does not keep the lock.
C23_FailedFrameReleasesLock ==
    frameLoop = "failed" => lock # FrameHolder

\* C24: no worker exists with a particle radius or a sub-tick count that is not
\* positive: such a construction ends with an error at the host.
C24_InvalidConfigurationRejected ==
    (engine.particleRadius <= 0 \/ ~Less(0, subticks)) => host.error

\* C25: a construction that finds no device ends with an error at the host,
\* and leaves no worker listening or looping.
C25_NoDeviceIsFatal ==
    engine.device = "never" =>
        (host.error /\ ~engine.listening /\ frameLoop = "off")

\* ------------------------------------------------- the mapper's allocation
\* new BufferMapper(maxByteLength) for byte limits from 0 up to the one that
\* makes room for MaxParticles beams, and for limits beyond the 65536 cap.
\* The byte lengths are those of the ArrayBuffers the constructor allocates.
ByteLimits ==
    0..(MaxParticles * BeamStride)
        \cup {U16 * 4 - 1, U16 * ParticleStride, U16 * BeamStride}

ByteLengths(bm) ==
    [particleData |-> ParticleStride * Cardinality(DOMAIN bm.particleData),
     beamData |-> BeamStride * Cardinality(DOMAIN bm.beamData),
     mapping |-> 2 * Cardinality(DOMAIN bm.mapping)]

Allocate ==
    /\ lastOp.op = "maxByteLength"
    /\ lastOp' = [op |-> "BufferMapper",
                  maxByteLength |-> lastOp.maxByteLength,
                  maxParticles |-> BufferMapper(lastOp.maxByteLength).maxParticles,
                  maxBeams |-> BufferMapper(lastOp.maxByteLength).maxBeams,
                  byteLength |-> ByteLengths(BufferMapper(lastOp.maxByteLength))]
    /\ UNCHANGED <<buffers, bufferMapper, snapshot, kvars, wvars>>

InitAllocate ==
    /\ \E n \in ByteLimits : lastOp = [op |-> "maxByteLength", maxByteLength |-> n]
    /\ snapshot = <<>>
    /\ buffers = <<>>
    /\ bufferMapper = <<>>
    /\ NoKernel
    /\ NoWorker

SpecAllocate == InitAllocate /\ [][Allocate]_vars

\* C37: for every maxByteLength the particle buffer, the beam buffer and the
\* mapping buffer the mapper allocates are each at most maxByteLength bytes
\* long, and neither capacity is above 65536.
C37_BuffersFitLimit ==
    lastOp.op = "BufferMapper" =>
        /\ lastOp.byteLength.particleData <= lastOp.maxByteLength
        /\ lastOp.byteLength.beamData <= lastOp.maxByteLength
        /\ lastOp.byteLength.mapping <= lastOp.maxByteLength
        /\ lastOp.maxParticles <= U16
        /\ lastOp.maxBeams <= U16

\* C32: after any sequence of add, remove and clear calls the beams indexed
\* under a particle ID are exactly the stored beams that have that particle as
\* an end point.
C32_BeamIndexExact ==
    \A id \in EditIds :
        getConnectedBeams(bufferMapper, id) =
            {bufferMapper.beams[i] : i \in {j \in 1..Len(bufferMapper.beams) :
                 id \in {bufferMapper.beams[j].a, bufferMapper.beams[j].b}}}

\* ------------------------------------------------- the host's input throttle
\* sendUserInput on the host.  host holds the input state the listeners keep
\* (one value for applied force, cursor position and the active flag), the
\* payload of the last INPUT message posted, the milliseconds since lastUpdate
\* (counted up to Throttle, beyond which the test no longer changes), whether
\* the timeout is pending, and, as history, whether a listener has run and
\* which path posted last.
Throttle == 10
InputStates == 0..2

InputHost(since) ==
    [input |-> 0, sent |-> -1, since |-> since, timer |-> FALSE,
     touched |-> FALSE, via |-> "none"]

\* fn(); lastUpdate = performance.now();
postInput(h, via) == [h EXCEPT !.sent = h.input, !.since = 0, !.via = via]

\* A throttle that forgets the update it cannot send at once.
sendUserInputDropping(h) ==
    IF h.since >= Throttle
    THEN postInput([h EXCEPT !.timer = FALSE], "call")
    ELSE [h EXCEPT !.timer = FALSE]

\* The returned closure: clearTimeout, then fn() at once when 10 ms have gone
\* by since lastUpdate, else a timeout for the rest of the 10 ms.
sendUserInput(h) ==
    IF h.since >= Throttle
    THEN postInput([h EXCEPT !.timer = FALSE], "call")
    ELSE [h EXCEPT !.timer = TRUE]

\* A listener: the input state is updated, then sendUserInput().
InputEvent(u) ==
    /\ host' = sendUserInput([host EXCEPT !.input = u, !.touched = TRUE])
    /\ UNCHANGED <<buffers, bufferMapper, engine, tasks, lock, staging, frameLoop,
                   encoder, userInput, subticks, posted, kvars, svars>>

\* The timeout's callback, not before its delay has passed.
TimeoutFires ==
    /\ host.timer
    /\ host.since >= Throttle
    /\ host' = postInput([host EXCEPT !.timer = FALSE], "timer")
    /\ UNCHANGED <<buffers, bufferMapper, engine, tasks, lock, staging, frameLoop,
                   encoder, userInput, subticks, posted, kvars, svars>>

\* A millisecond passes.
Tick ==
    /\ host.since < Throttle
    /\ host' = [host EXCEPT !.since = @ + 1]
    /\ UNCHANGED <<buffers, bufferMapper, engine, tasks, lock, staging, frameLoop,
                   encoder, userInput, subticks, posted, kvars, svars>>

NextInput ==
    \/ \E u \in InputStates : InputEvent(u)
    \/ TimeoutFires
    \/ Tick

InitInput ==
    /\ \E since \in 0..Throttle : host = InputHost(since)
    /\ engine = <<>>
    /\ tasks = <<>>
    /\ lock = 0
    /\ staging = <<>>
    /\ frameLoop = "off"
    /\ encoder = <<>>
    /\ userInput = 0
    /\ subticks = 0
    /\ posted = <<>>
    /\ buffers = <<>>
    /\ bufferMapper = <<>>
    /\ NoKernel
    /\ NoStore

\* Time passes, and a timeout whose delay has passed is run.
SpecInput ==
    /\ InitInput
    /\ [][NextInput]_vars
    /\ WF_vars(Tick)
    /\ WF_vars(TimeoutFires)

\* C36: once a listener has run, an input state that is not the one last
\* posted has a timeout pending, and every input state is in the end posted
\* unless another one has replaced it.
C36_LastInputIsPosted ==
    /\ []((host.touched /\ host.sent # host.input) => host.timer)
    /\ \A u \in InputStates :
          (host.touched /\ host.input = u) ~> (host.sent = u \/ host.input # u)

\* An update that came within the 10 ms was posted by the timeout.
C36_Witness ==
    /\ host.via = "timer"
    /\ host.sent = host.input
    /\ host.sent # 0

\* ------------------------------------------------- requests and their promises
\* postMessageWithAck on the host.  host holds the requests made so far (the
\* method called), the 'message' listeners the calls have added and not yet
\* removed (request number and awaited response type), what each promise has
\* resolved with (0 while pending), the messages on their way to the worker and
\* those on their way back.  The payload of a response is the number of the
\* request the worker produced it for.  The worker answers in order.
MaxRequests == 3
Methods == {"setPhysicsConstants", "getPhysicsConstants", "saveSnapshot", "loadSnapshot"}

\* The response type each method waits for (responseType ?? type).
resType(method) ==
    CASE method = "setPhysicsConstants" -> "PHYSICS_CONSTANTS"
      [] method = "getPhysicsConstants" -> "PHYSICS_CONSTANTS"
      [] method = "saveSnapshot" -> "SNAPSHOT_SAVE"
      [] method = "loadSnapshot" -> "SNAPSHOT_LOAD"

AckHost ==
    [requests |-> <<>>, listeners |-> {}, resolved |-> <<>>,
     toWorker |-> <<>>, toHost |-> <<>>]

\* postMessageWithAck: addEventListener, then postMessage.
HostCall(method) ==
    LET n == Len(host.requests) + 1
    IN /\ n <= MaxRequests
       /\ host' = [host EXCEPT !.requests = Append(@, method),
                               !.listeners = @ \cup {<<n, resType(method)>>},
                               !.resolved = Append(@, 0),
                               !.toWorker = Append(@, n)]
       /\ UNCHANGED <<buffers, bufferMapper, engine, tasks, lock, staging, frameLoop,
                      encoder, userInput, subticks, posted, kvars, svars>>

\* The worker's handler ends with postMessage(type, payload).
WorkerAnswers ==
    /\ host.toWorker # <<>>
    /\ LET n == Head(host.toWorker)
           m == Message(resType(host.requests[n]), n)
       IN /\ posted' = m
          /\ host' = [host EXCEPT !.toWorker = Tail(@), !.toHost = Append(@, m)]
    /\ UNCHANGED <<buffers, bufferMapper, engine, tasks, lock, staging, frameLoop,
                   encoder, userInput, subticks, kvars, svars>>

\* A message event on the host: every listener whose type it has resolves its
\* promise with e.data.data and removes itself.
Notified(h, m) == {l \in h.listeners : l[2] = m.type}

HostReceives ==
    /\ host.toHost # <<>>
    /\ LET m == Head(host.toHost)
           hit == {l[1] : l \in Notified(host, m)}
       IN host' = [host EXCEPT
                      !.toHost = Tail(@),
                      !.listeners = @ \ Notified(host, m),
                      !.resolved = [n \in DOMAIN @ |-> IF n \in hit THEN m.data ELSE @[n]]]
    /\ UNCHANGED <<buffers, bufferMapper, engine, tasks, lock, staging, frameLoop,
                   encoder, userInput, subticks, posted, kvars, svars>>

NextAck ==
    \/ \E method \in Methods : HostCall(method)
    \/ WorkerAnswers
    \/ HostReceives

InitAck ==
    /\ host = AckHost
    /\ engine = <<>>
    /\ tasks = <<>>
    /\ lock = 0
    /\ staging = <<>>
    /\ frameLoop = "off"
    /\ encoder = <<>>
    /\ userInput = 0
    /\ subticks = 0
    /\ posted = NoMessage
    /\ buffers = <<>>
    /\ bufferMapper = <<>>
    /\ NoKernel
    /\ NoStore

SpecAck == InitAck /\ [][NextAck]_vars

\* C34: a promise that has resolved holds the payload the worker produced for
\* its own request.
C34_PromiseGetsOwnResponse ==
    \A n \in DOMAIN host.resolved : host.resolved[n] \in {0, n}

\* ------------------------------------------------- snapshot bytes
\* loadSnapshotbuffer on a byte sequence that is the first byteLength bytes of
\* a snapshot (a file cut short, down to the empty one).  A typed-array view
\* whose offset + length lies beyond the end of the ArrayBuffer throws a
\* RangeError at its constructor; what was copied before stays copied.
lenSize == 2 * 6

FullLength(buf) ==
    lenSize + buf.metadataSize + buf.particleMappingSize + buf.particleDataSize
        + buf.beamMappingSize + buf.beamDataSize

\* The sections in the order the function copies them, each with the offset of
\* its end in the snapshot.
SectionEnds(buf) ==
    LET base == lenSize + buf.metadataSize
    IN <<base,
         base + buf.particleMappingSize,
         base + buf.particleMappingSize + buf.particleDataSize,
         base + buf.particleMappingSize + buf.particleDataSize + buf.beamMappingSize,
         FullLength(buf)>>

\* The copies that ran: the first k of metadata, particle mapping, particle
\* data, beam mapping, beam data.
CopySections(bm, buf, k) ==
    [bm EXCEPT
        !.metadata.physicsConstants = IF k >= 1 THEN buf.metadata ELSE @,
        !.mapping =
            LET m1 == IF k >= 2
                      THEN SetPrefix(@, buf.particleMapping, 0, buf.particleMappingSize \div 2)
                      ELSE @
            IN IF k >= 4
               THEN SetPrefix(m1, buf.beamMapping, bm.maxParticles, buf.beamMappingSize \div 2)
               ELSE m1,
        !.particleData =
            IF k >= 3
            THEN SetPrefix(@, buf.particleData, 0, buf.particleDataSize \div ParticleStride)
            ELSE @,
        !.beamData =
            IF k >= 5
            THEN SetPrefix(@, buf.beamData, 0, buf.beamDataSize \div BeamStride)
            ELSE @]

\* The number of copies whose source view lies inside the bytes.
CopiesInside(buf, byteLength) ==
    Cardinality({k \in 1..5 : \A j \in 1..k : SectionEnds(buf)[j] <= byteLength})

loadSnapshotBytes(bm, buf, byteLength) ==
    IF byteLength < 2 * 5
    THEN [result |-> "RangeError", bm |-> bm]
    ELSE IF TooLarge(bm, buf)
    THEN [result |-> "false", bm |-> bm]
    ELSE IF CopiesInside(buf, byteLength) < 5
    THEN [result |-> "RangeError",
          bm |-> CopySections(bm, buf, CopiesInside(buf, byteLength))]
    ELSE [result |-> "true", bm |-> loadState(CopySnapshot(bm, buf))]

\* onMessage, SNAPSHOT_LOAD, up to its first await: an exception leaves the
\* handler before postMessage.
LoadBytes ==
    /\ lastOp.op = "bytes"
    /\ LET r == loadSnapshotBytes(bufferMapper, snapshot.buffer, snapshot.byteLength)
       IN /\ bufferMapper' = r.bm
          /\ lastOp' = [op |-> "loadSnapshotbuffer", result |-> r.result,
                        before |-> bufferMapper,
                        answered |-> r.result # "RangeError"]
    /\ UNCHANGED <<buffers, snapshot, kvars, wvars>>

InitBytes ==
    /\ bufferMapper \in {BufferMapper(MaxByteLength), BufferMapper(ParticleStride)}
    /\ \E buf \in SnapshotsSent, n \in 0..(lenSize + 4 * 8 + (2 + ParticleStride) * MaxParticles) :
          /\ n <= FullLength(buf)
          /\ snapshot = [buffer |-> buf, byteLength |-> n]
    /\ lastOp = [op |-> "bytes"]
    /\ buffers = <<>>
    /\ NoKernel
    /\ NoWorker

SpecBytes == InitBytes /\ [][LoadBytes]_vars

\* C35: for any bytes the load returns false with the host buffers as they
\* were, or true with the whole snapshot installed; it does not end in an
\* error, and not with part of the buffers overwritten.
C35_LoadIsAllOrNothing ==
    lastOp.op = "loadSnapshotbuffer" =>
        /\ lastOp.result \in {"true", "false"}
        /\ lastOp.answered
        /\ lastOp.result = "false" => bufferMapper = lastOp.before
        /\ lastOp.result = "true" =>
              bufferMapper = loadState(CopySnapshot(lastOp.before, snapshot.buffer))

\* C31: two particles that start a sub-tick at one position with one velocity
\* are at different positions when it ends, in mid field and on the border.
C31_CoincidentParticlesSeparate ==
    (pre.start \in CoincidentScenes /\ UpdateDone /\ frames = 2)
        => LastWritten[0].p # LastWritten[1].p

\* C33: the write-back of a PHYSICS_CONSTANTS request changes only the eight
\* physics constants on the device: the counts, the capacities, the id mapping
\* and the particle and beam records of the device are after the write what the
\* most recently completed frame (or load) left there, also when frames ran
\* between the request's read-back and its write-back.
C33_ConstantsRequestKeepsSimulation ==
    [][\A t \in Tasks :
          (WriteBuffersWrite(t) /\ tasks[t].type = "PHYSICS_CONSTANTS") =>
              /\ buffers'.metadata =
                    [buffers.metadata EXCEPT
                        !.physicsConstants = buffers'.metadata.physicsConstants]
              /\ buffers'.mapping = buffers.mapping
              /\ buffers'.particlesA = buffers.particlesA
              /\ buffers'.beams = buffers.beams]_vars
====
